---- MODULE Spec2Model ----
(***************************************************************************)
(* Boulevard new-client automation (src/app.py): the daily batch job that  *)
(* logs in, fetches calendar events, filters new clients, enriches each    *)
(* record by scraping, cleans the records and appends them to a monthly    *)
(* Google sheet.                                                           *)
(*                                                                         *)
(* Python values are modelled as follows.  A dict is a TLA+ function from  *)
(* key strings to values; a missing key is a key outside DOMAIN.  Where a  *)
(* field can hold values of several Python types, the value is a tag       *)
(* string ("True", "False", "None", "yes", ...) and Truthy gives Python's  *)
(* truth value.  Texts that the code parses or formats character by        *)
(* character are sequences of one-character strings.                       *)
(***************************************************************************)
EXTENDS Integers, Sequences, FiniteSets, TLC

VARIABLES
    pc,                 \* position of the run / of the function under study
    env,                \* which environment values are set (app.py:31-37)
    events_data,        \* main: result of fetch_calendar_events / filter input
    new_client_events,  \* result of filter_new_clients_from_raw
    page,               \* what the scraped pages show for the current record
    idx,                \* extract_new_client_fields: index of the event in hand
    extracted_data,     \* list built by extract_new_client_fields
    start_number,       \* clean_data's start_number
    current_year,       \* datetime.now().year
    cleaned_data,       \* result of clean_data
    spreadsheet,        \* the Google spreadsheet: sheet title -> rows
    target_month,       \* month name of "yesterday"
    effects,            \* what the current run has done so far
    history,            \* numbers of all data rows ever appended, in order
    disk                \* files in the working directory: session.json, the JSON output

vars == <<pc, env, events_data, new_client_events, page, idx, extracted_data,
          start_number, current_year, cleaned_data, spreadsheet, target_month,
          effects, history, disk>>

\* the state that outlives one function call: environment, spreadsheet, clock
runVars == <<env, spreadsheet, target_month, effects, history, disk>>

(***************************************************************************)
(* Bounds of the model.                                                    *)
(***************************************************************************)
MaxEvents == 2
MaxRecords == 2
MaxInterests == 11
MaxRuns == 2
MaxRows == 2
MaxAttempts == 3

\* value of a variable that a specification does not use
Idle == "idle"

(***************************************************************************)
(* Python helpers.                                                         *)
(***************************************************************************)
\* bool(v) for the tagged values a JSON field can hold
Truthy(v) == v \in {"True", "yes"}

\* d.get(key, default)
Get(d, key, default) == IF key \in DOMAIN d THEN d[key] ELSE default

(***************************************************************************)
(* filter_new_clients_from_raw (app.py:306-397).                           *)
(*                                                                         *)
(* An event is [isdict, is_new_client, client, title]: is_new_client is    *)
(* "absent" when the key is missing; client is "absent", "notdict" or the  *)
(* nested flag of a client dict ("dict:<flag>").                           *)
(***************************************************************************)
FlagValues == {"absent", "True", "False", "yes"}
ClientValues == {"absent", "notdict", "dict:absent", "dict:True", "dict:False"}

DictEvents == [isdict : {TRUE}, is_new_client : FlagValues, client : ClientValues]
NonDictEvent == [isdict |-> FALSE, is_new_client |-> "absent", client |-> "absent"]
AllEvents == DictEvents \cup {NonDictEvent}

RECURSIVE SeqsUpTo(_, _)
SeqsUpTo(S, n) ==
    IF n = 0 THEN {<<>>}
    ELSE LET shorter == SeqsUpTo(S, n - 1)
         IN  shorter \cup {Append(s, x) : s \in {t \in shorter : Len(t) = n - 1}, x \in S}

\* event.get('is_new_client', False)
direct_flag(event) ==
    IF event.is_new_client = "absent" THEN "False" ELSE event.is_new_client

\* client_data.get('is_new_client', False) when client_data is a dict
nested_flag(event) ==
    CASE event.client = "dict:True" -> "True"
      [] event.client = "dict:False" -> "False"
      [] OTHER -> "False"

client_is_dict(event) ==
    event.client \in {"dict:absent", "dict:True", "dict:False"}

is_new_client_direct_only(event) == Truthy(direct_flag(event))

\* lines 351-360: direct field first, then the nested client object
is_new_client(event) ==
    IF Truthy(direct_flag(event)) THEN TRUE
    ELSE IF client_is_dict(event) THEN Truthy(nested_flag(event))
    ELSE FALSE

events_of_falling_back_to_data(raw) ==
    IF raw.kind = "list" THEN raw.items
    ELSE IF raw.kind = "dict"
         THEN IF raw.hasEvents /\ raw.events # <<>> THEN raw.events
              ELSE IF raw.hasData THEN raw.data ELSE <<>>
         ELSE <<>>

\* lines 324-331: a raw input is [kind, items, hasEvents, events, hasData, data]
events_of(raw) ==
    IF raw.kind = "list" THEN raw.items
    ELSE IF raw.kind = "dict"
         THEN IF raw.hasEvents THEN raw.events
              ELSE IF raw.hasData THEN raw.data ELSE <<>>
         ELSE <<>>

RECURSIVE filter_loop(_, _, _)
\* lines 346-365: the loop over the events, appending the event itself
filter_loop(events, i, acc) ==
    IF i > Len(events) THEN acc
    ELSE filter_loop(events, i + 1,
                     IF is_new_client(events[i]) THEN Append(acc, events[i]) ELSE acc)

\* the whole function; an item that is not a dict raises AttributeError
\* (lines 341, 354), which the outer except turns into []
filter_new_clients_from_raw(raw) ==
    LET events == events_of(raw)
    IN  IF events = <<>> THEN <<>>
        ELSE IF \E i \in 1..Len(events) : ~events[i].isdict THEN <<>>
        ELSE filter_loop(events, 1, <<>>)

RawInputs ==
    LET lists == SeqsUpTo(AllEvents, MaxEvents)
        short == {<<>>, <<[isdict |-> TRUE, is_new_client |-> "True", client |-> "absent"]>>}
    IN  {[kind |-> "list", items |-> l, hasEvents |-> FALSE, events |-> <<>>,
          hasData |-> FALSE, data |-> <<>>] : l \in lists}
        \cup {[kind |-> "dict", items |-> <<>>, hasEvents |-> TRUE, events |-> l,
               hasData |-> hd, data |-> d] :
                 l \in lists, hd \in BOOLEAN, d \in short}
        \cup {[kind |-> "dict", items |-> <<>>, hasEvents |-> FALSE, events |-> <<>>,
               hasData |-> hd, data |-> l] : l \in lists, hd \in BOOLEAN}
        \cup {[kind |-> "other", items |-> <<>>, hasEvents |-> FALSE, events |-> <<>>,
               hasData |-> FALSE, data |-> <<>>]}

IdleRest ==
    /\ env = Idle /\ page = Idle /\ idx = 0 /\ spreadsheet = Idle /\ target_month = Idle
    /\ effects = Idle /\ history = Idle /\ disk = Idle

InitFilter ==
    /\ pc = "filter"
    /\ events_data \in RawInputs
    /\ new_client_events = <<>>
    /\ extracted_data = <<>> /\ start_number = 0 /\ current_year = 0
    /\ cleaned_data = <<>>
    /\ IdleRest

FilterCall ==
    /\ pc = "filter"
    /\ new_client_events' = filter_new_clients_from_raw(events_data)
    /\ pc' = "filtered"
    /\ UNCHANGED <<runVars, events_data, page, idx, extracted_data, start_number,
                   current_year, cleaned_data>>

NextFilter == FilterCall
SpecFilter == InitFilter /\ [][NextFilter]_vars

\* the event list the caller handed in, as the claim describes the input
GivenEvents(raw) ==
    CASE raw.kind = "list" -> raw.items
      [] raw.kind = "dict" /\ raw.hasEvents -> raw.events
      [] raw.kind = "dict" /\ ~raw.hasEvents /\ raw.hasData -> raw.data
      [] OTHER -> <<>>

Flagged(e) ==
    \/ e.is_new_client \in {"True", "yes"}
    \/ e.client = "dict:True"

AllDicts(s) == \A i \in 1..Len(s) : s[i].isdict

\* C1: for a list input or a dict holding the list under 'events' or 'data',
\* the filter returns exactly the subsequence of the input events whose direct
\* or nested is_new_client is truthy, in input order, each event unaltered.
C1_FilterExactSubsequence ==
    (pc = "filtered" /\ AllDicts(GivenEvents(events_data)))
        => new_client_events = SelectSeq(GivenEvents(events_data), Flagged)

\* a two-event input of which only the second is kept, through its nested flag
C1_Witness ==
    /\ pc = "filtered"
    /\ events_data.kind = "dict" /\ ~events_data.hasEvents /\ events_data.hasData
    /\ Len(events_data.data) = 2
    /\ AllDicts(events_data.data)
    /\ ~Flagged(events_data.data[1])
    /\ events_data.data[2].is_new_client = "False"
    /\ events_data.data[2].client = "dict:True"
    /\ new_client_events = <<events_data.data[2]>>

(***************************************************************************)
(* Texts: sequences of one-character strings.                              *)
(***************************************************************************)
NA == <<"N", "/", "A">>
EmptyText == <<>>

DigitChars == <<"0", "1", "2", "3", "4", "5", "6", "7", "8", "9">>
Digits == {DigitChars[i] : i \in 1..10}
LowerLetters == {"a","b","c","d","e","f","g","h","i","j","k","l","m",
                 "n","o","p","q","r","s","t","u","v","w","x","y","z"}
UpperLetters == {"A","B","C","D","E","F","G","H","I","J","K","L","M",
                 "N","O","P","Q","R","S","T","U","V","W","X","Y","Z"}
Letters == LowerLetters \cup UpperLetters
Spaces == {" "}

Digit(d) == DigitChars[d + 1]
DigitValue(c) == CHOOSE d \in 0..9 : DigitChars[d + 1] = c

\* '%02d'-style rendering of 0..99 and '%04d'-style rendering of 0..9999
TwoDigits(n) == <<Digit(n \div 10), Digit(n % 10)>>
FourDigits(n) ==
    <<Digit(n \div 1000), Digit((n \div 100) % 10), Digit((n \div 10) % 10), Digit(n % 10)>>

\* str(n) for a year 1000..9999, as f"{current_year}" renders it
YearText(n) == FourDigits(n)

\* s.zfill(2)
zfill2(s) == IF Len(s) >= 2 THEN s ELSE IF Len(s) = 1 THEN <<"0">> \o s ELSE <<"0", "0">>

RECURSIVE RunEnd(_, _, _)
\* last index of the maximal run of characters of class C that starts at i
\* (i - 1 when text[i] is not in C or i is past the end)
RunEnd(text, i, C) ==
    IF i <= Len(text) /\ text[i] \in C THEN RunEnd(text, i + 1, C) ELSE i - 1

FullMonthNames == <<
    <<"J","a","n","u","a","r","y">>, <<"F","e","b","r","u","a","r","y">>,
    <<"M","a","r","c","h">>, <<"A","p","r","i","l">>, <<"M","a","y">>,
    <<"J","u","n","e">>, <<"J","u","l","y">>, <<"A","u","g","u","s","t">>,
    <<"S","e","p","t","e","m","b","e","r">>, <<"O","c","t","o","b","e","r">>,
    <<"N","o","v","e","m","b","e","r">>, <<"D","e","c","e","m","b","e","r">> >>
MonthAbbr(m) == SubSeq(FullMonthNames[m], 1, 3)

(***************************************************************************)
(* clean_data (app.py:1398-1510).                                          *)
(***************************************************************************)
\* re.search(r'([A-Za-z]+)\s+(\d+)', text): does a match start at i?
\* Each of the three runs is greedy and no shorter run can match, so a match
\* starts at i exactly when the maximal letter run at i is followed by at
\* least one whitespace and then a digit.
MatchAt(text, i) ==
    LET j == RunEnd(text, i, Letters)
        k == RunEnd(text, j + 1, Spaces)
    IN  j >= i /\ k >= j + 1 /\ k + 1 <= Len(text) /\ text[k + 1] \in Digits

\* the leftmost match, as <<group(1), group(2)>>, or <<>> when there is none
re_search_month_day(text) ==
    LET starts == {i \in 1..Len(text) : MatchAt(text, i)}
    IN  IF starts = {} THEN <<>>
        ELSE LET i == CHOOSE x \in starts : \A y \in starts : x <= y
                 j == RunEnd(text, i, Letters)
                 k == RunEnd(text, j + 1, Spaces)
                 e == RunEnd(text, k + 1, Digits)
             IN  <<SubSeq(text, i, j), SubSeq(text, k + 1, e)>>

\* lines 1432-1441: month_map.get(month_str, '01') with abbreviations and
\* full names as keys
month_map_next(month_str) ==
    IF \E m \in 1..12 : month_str = MonthAbbr(m) \/ month_str = FullMonthNames[m]
    THEN TwoDigits(CHOOSE m \in 1..12 :
                      month_str = MonthAbbr(m) \/ month_str = FullMonthNames[m])
    ELSE <<"0", "1">>

\* lines 1456-1462: month_map.get(month_str, '01') with abbreviations only
month_map_booked(month_str) ==
    IF \E m \in 1..12 : month_str = MonthAbbr(m)
    THEN TwoDigits(CHOOSE m \in 1..12 : month_str = MonthAbbr(m))
    ELSE <<"0", "1">>

\* lines 1418-1443
next_appointment_date_of(record, year) ==
    LET scheduled_appointments == Get(record, "scheduled_appointments", <<>>)
    IN  IF Len(scheduled_appointments) = 0 THEN NA
        ELSE LET date_time_str == Get(scheduled_appointments[1], "date_time", EmptyText)
             IN  IF date_time_str = EmptyText \/ date_time_str = NA THEN NA
                 ELSE LET match == re_search_month_day(date_time_str)
                      IN  IF match = <<>> THEN NA
                          ELSE month_map_next(match[1]) \o <<"/">> \o zfill2(match[2])
                                   \o <<"/">> \o YearText(year)

\* lines 1446-1466
booked_date_formatted_of(record, year) ==
    LET booked_date == Get(record, "booked_date", EmptyText)
    IN  IF booked_date = EmptyText \/ booked_date = NA THEN EmptyText
        ELSE LET match == re_search_month_day(booked_date)
             IN  IF match = <<>> THEN booked_date
                 ELSE month_map_booked(match[1]) \o <<"/">> \o zfill2(match[2])
                          \o <<"/">> \o YearText(year)

\* lines 1469-1470; {} is falsy
interests_of(record) ==
    LET pt_intake_form == Get(record, "pt_intake_form", <<>>)
    IN  IF DOMAIN pt_intake_form = {} THEN <<>>
        ELSE Get(pt_intake_form, "interests", <<>>)

interest_slot_shifted(interests, n) == IF Len(interests) > n THEN interests[n + 1] ELSE ""

\* lines 1495-1504: interest_n is interests[n-1] if len(interests) > n-1 else ''
interest_slot(interests, n) == IF Len(interests) > n - 1 THEN interests[n] ELSE ""

pt_field(record, key, default) ==
    LET pt_intake_form == Get(record, "pt_intake_form", <<>>)
    IN  IF DOMAIN pt_intake_form = {} THEN default
        ELSE Get(pt_intake_form, key, default)

\* lines 1473-1505: the cleaned record, its keys in the order of CleanedKeys
clean_record(record, number, year) ==
    [number |-> number,
     new_client_daily_count |-> "",
     appointment_date |-> Get(record, "appointment_date", NA),
     next_appointment_date |-> next_appointment_date_of(record, year),
     client_name |-> Get(record, "client_name", "N/A"),
     phone_number |-> Get(record, "phone_number", "N/A"),
     service_name |-> Get(record, "service_name", "N/A"),
     price |-> Get(record, "price", 0),
     membership |-> Get(record, "membership_start_date", "N/A"),
     visit |-> Get(record, "visit_count", 1),
     booked_date |-> booked_date_formatted_of(record, year),
     front_desk |-> Get(record, "booked_by", NA),
     provider_name |-> Get(record, "provider_name", "N/A"),
     date_treatment_plan_set |-> "",
     photos |-> IF Get(record, "hasPhotos", FALSE) THEN "Yes" ELSE "No",
     charting |-> IF Get(record, "hasCharting", FALSE) THEN "Yes" ELSE "No",
     occupation |-> pt_field(record, "occupation", ""),
     referral_source |-> pt_field(record, "referral_source", "N/A"),
     referral_source_2 |-> "N/A",
     referral_name |-> pt_field(record, "referral_name", "N/A"),
     form_compliance |-> IF Get(record, "hasCompletedPTIntakeForm", FALSE)
                         THEN "Completed" ELSE "Not Completed",
     interest_1 |-> interest_slot(interests_of(record), 1),
     interest_2 |-> interest_slot(interests_of(record), 2),
     interest_3 |-> interest_slot(interests_of(record), 3),
     interest_4 |-> interest_slot(interests_of(record), 4),
     interest_5 |-> interest_slot(interests_of(record), 5),
     interest_6 |-> interest_slot(interests_of(record), 6),
     interest_7 |-> interest_slot(interests_of(record), 7),
     interest_8 |-> interest_slot(interests_of(record), 8),
     interest_9 |-> interest_slot(interests_of(record), 9),
     interest_10 |-> interest_slot(interests_of(record), 10)]

number_from_one(start, i) == i

\* line 1416: enumerate(extracted_data, start=start_number); i is 1-based
number_at(start, i) == start + i - 1

\* the whole function
clean_data(extracted, start, year) ==
    [i \in 1..Len(extracted) |-> clean_record(extracted[i], number_at(start, i), year)]

(***************************************************************************)
(* clean_data on its own: the inputs are extracted records as              *)
(* extract_new_client_fields builds them.                                  *)
(***************************************************************************)
TxtMonOct6 == <<"M","o","n"," ","O","c","t"," ","6"," ","@"," ","3",":","4","8","p","m"," ","C","D","T">>
TxtTueNov18 == <<"T","u","e","s","d","a","y",","," ","N","o","v"," ","1","8"," ","@"," ","2",":","0","0","p","m">>
TxtFriMay1 == <<"F","r","i"," ","M","a","y"," ","1"," ","@"," ","9",":","0","0","a","m"," ","C","D","T">>
TxtOctober6 == <<"O","c","t","o","b","e","r"," ","6"," ","@"," ","3",":","4","8","p","m">>
TxtDecember25 == <<"W","e","d","n","e","s","d","a","y",","," ","D","e","c","e","m","b","e","r"," ","2","5"," ","@"," ","1",":","0","0","p","m">>
TxtSept9 == <<"S","e","p","t"," ","9"," ","@"," ","8",":","1","5","a","m">>
TxtTomorrow == <<"t","o","m","o","r","r","o","w">>

InterestPool == <<"Botox", "Filler", "Facial", "Laser", "Peel", "Microneedling",
                  "Body", "Hair", "Wellness", "Weight", "Skin", "Lashes", "Brows">>
InterestList(k) == [i \in 1..k |-> InterestPool[i]]

Absent == [has |-> FALSE, v |-> <<>>]
Present(v) == [has |-> TRUE, v |-> v]
Field(key, opt) == IF opt.has THEN key :> opt.v ELSE <<>>

BookedOptions ==
    {Absent} \cup {Present(t) : t \in {NA, TxtMonOct6, TxtFriMay1, TxtOctober6,
                                       TxtSept9, TxtTomorrow}}
Appointment(t) == [service |-> "Consult", date_time |-> t]
ScheduledOptions ==
    {Absent, Present(<<>>)}
    \cup {Present(<<Appointment(t)>>) : t \in {NA, TxtTueNov18, TxtDecember25, TxtFriMay1,
                                               TxtSept9, TxtTomorrow}}
    \cup {Present(<<Appointment(TxtMonOct6), Appointment(TxtTueNov18)>>)}
FormOptions ==
    {Absent, Present(<<>>)}
    \cup {Present([occupation |-> "Nurse", referral_source |-> "Friend",
                   referral_name |-> "N/A", interests |-> InterestList(k)]) :
             k \in 0..MaxInterests}

MkExtracted(name, booked, scheduled, form) ==
    [client_name |-> name, appointment_date |-> <<"1","0","/","1","1","/","2","0","2","5">>,
     price |-> 150, visit_count |-> 1, hasPhotos |-> FALSE]
    @@ Field("booked_date", booked)
    @@ Field("scheduled_appointments", scheduled)
    @@ Field("pt_intake_form", form)

DefaultBooked == Present(TxtMonOct6)
DefaultScheduled == Present(<<Appointment(TxtTueNov18)>>)
DefaultForm == Present([occupation |-> "Nurse", referral_source |-> "Friend",
                        referral_name |-> "N/A", interests |-> InterestList(3)])

FirstRecords ==
    {MkExtracted("Ann", b, DefaultScheduled, DefaultForm) : b \in BookedOptions}
    \cup {MkExtracted("Ann", DefaultBooked, a, DefaultForm) : a \in ScheduledOptions}
    \cup {MkExtracted("Ann", DefaultBooked, DefaultScheduled, f) : f \in FormOptions}
LaterRecords ==
    {MkExtracted("Bob", Present(TxtOctober6), Absent, Absent),
     MkExtracted("Cy", Present(TxtFriMay1), DefaultScheduled, DefaultForm)}

ExtractedInputs ==
    {<<>>} \cup {<<r>> \o t : r \in FirstRecords, t \in SeqsUpTo(LaterRecords, MaxRecords - 1)}

StartNumbers == {1, 8}
CurrentYears == {2025, 2026}

InitClean ==
    /\ pc = "clean"
    /\ extracted_data \in ExtractedInputs
    /\ start_number \in StartNumbers
    /\ current_year \in CurrentYears
    /\ cleaned_data = <<>>
    /\ events_data = Idle /\ new_client_events = <<>>
    /\ IdleRest

CleanCall ==
    /\ pc = "clean"
    /\ cleaned_data' = clean_data(extracted_data, start_number, current_year)
    /\ pc' = "cleaned"
    /\ UNCHANGED <<runVars, events_data, new_client_events, page, idx, extracted_data,
                   start_number, current_year>>

NextClean == CleanCall
SpecClean == InitClean /\ [][NextClean]_vars

\* C2: clean_data returns as many records as it was given, in input order,
\* and the i-th one (0-based) carries number = start_number + i.
C2_SequentialNumbers ==
    pc = "cleaned" =>
        /\ Len(cleaned_data) = Len(extracted_data)
        /\ \A i \in 1..Len(extracted_data) :
              /\ cleaned_data[i].number = start_number + (i - 1)
              /\ cleaned_data[i].client_name = extracted_data[i].client_name

C2_Witness ==
    /\ pc = "cleaned"
    /\ Len(extracted_data) = MaxRecords
    /\ start_number = 8
    /\ cleaned_data[1].number = 8
    /\ cleaned_data[MaxRecords].number = 8 + MaxRecords - 1
    /\ cleaned_data[MaxRecords].client_name # cleaned_data[1].client_name

SlotKeys == <<"interest_1", "interest_2", "interest_3", "interest_4", "interest_5",
              "interest_6", "interest_7", "interest_8", "interest_9", "interest_10">>

\* the interests list of an extracted record as the claim describes it
GivenInterests(record) ==
    IF "pt_intake_form" \in DOMAIN record
       /\ "interests" \in DOMAIN record["pt_intake_form"]
    THEN record["pt_intake_form"]["interests"]
    ELSE <<>>

\* C6: with k interests, interest_i is the i-th interest for 1 <= i <= min(k, 10)
\* and the empty string for k < i <= 10; with no form or no interests all ten
\* slots are empty.
C6_InterestSlots ==
    pc = "cleaned" =>
        \A r \in 1..Len(extracted_data) :
            LET given == GivenInterests(extracted_data[r])
            IN  \A i \in 1..10 :
                    cleaned_data[r][SlotKeys[i]] =
                        IF i <= Len(given) THEN given[i] ELSE ""

\* a record with three interests: slots 1..3 filled, 4..10 empty
C6_Witness ==
    /\ pc = "cleaned"
    /\ Len(extracted_data) >= 1
    /\ Len(GivenInterests(extracted_data[1])) = 3
    /\ cleaned_data[1].interest_3 = "Facial"
    /\ cleaned_data[1].interest_4 = ""
    /\ cleaned_data[1].interest_10 = ""

\* the month names (full or three-letter) that occur in a text as a whole word
\* followed by whitespace and a day number: <<month number, day digits>>
NamedDates(text) ==
    {<<m, SubSeq(text, RunEnd(text, j + 1, Spaces) + 1,
                 RunEnd(text, RunEnd(text, j + 1, Spaces) + 1, Digits))>> :
        <<m, i, j>> \in
          {<<m, i, j>> \in (1..12) \X (1..Len(text)) \X (1..Len(text)) :
              /\ i <= j
              /\ SubSeq(text, i, j) \in {MonthAbbr(m), FullMonthNames[m]}
              /\ (i = 1 \/ text[i - 1] \notin Letters)
              /\ j + 1 <= Len(text) /\ text[j + 1] \in Spaces
              /\ RunEnd(text, RunEnd(text, j + 1, Spaces) + 1, Digits)
                    >= RunEnd(text, j + 1, Spaces) + 1}}

PaddedDay(day) == IF Len(day) = 1 THEN <<"0">> \o day ELSE day
ExpectedDate(m, day, year) ==
    TwoDigits(m) \o <<"/">> \o PaddedDay(day) \o <<"/">> \o FourDigits(year)

\* C9: for every booked_date and every first scheduled date_time that contains
\* a month name followed by a day number, clean_data outputs MM/DD/<current
\* year> with MM the number of that month and DD the zero-padded day.
C9_MonthNameDates ==
    pc = "cleaned" =>
        \A r \in 1..Len(extracted_data) :
            LET rec == extracted_data[r]
            IN  /\ "booked_date" \in DOMAIN rec =>
                     \A d \in NamedDates(rec["booked_date"]) :
                         cleaned_data[r].booked_date = ExpectedDate(d[1], d[2], current_year)
                /\ ("scheduled_appointments" \in DOMAIN rec
                       /\ Len(rec["scheduled_appointments"]) > 0) =>
                     \A d \in NamedDates(rec["scheduled_appointments"][1].date_time) :
                         cleaned_data[r].next_appointment_date =
                             ExpectedDate(d[1], d[2], current_year)

\* the part of C9 the code does satisfy: three-letter month abbreviations
C9_AbbreviatedMonthsHold ==
    pc = "cleaned" =>
        \A r \in 1..Len(extracted_data) :
            LET rec == extracted_data[r]
            IN  /\ ("booked_date" \in DOMAIN rec /\ rec["booked_date"] = TxtMonOct6) =>
                     cleaned_data[r].booked_date = ExpectedDate(10, <<"6">>, current_year)
                /\ ("scheduled_appointments" \in DOMAIN rec
                       /\ Len(rec["scheduled_appointments"]) > 0
                       /\ rec["scheduled_appointments"][1].date_time = TxtDecember25) =>
                     cleaned_data[r].next_appointment_date =
                         ExpectedDate(12, <<"2", "5">>, current_year)

(***************************************************************************)
(* Text operations used by the scrapers.                                   *)
(***************************************************************************)
LowerSeq == <<"a","b","c","d","e","f","g","h","i","j","k","l","m",
              "n","o","p","q","r","s","t","u","v","w","x","y","z">>
UpperSeq == <<"A","B","C","D","E","F","G","H","I","J","K","L","M",
              "N","O","P","Q","R","S","T","U","V","W","X","Y","Z">>

\* c.lower()
LowerChar(c) ==
    IF c \in UpperLetters THEN LowerSeq[CHOOSE i \in 1..26 : UpperSeq[i] = c] ELSE c
\* text.lower()
Lower(text) == [i \in 1..Len(text) |-> LowerChar(text[i])]

\* is tok at position i of text?
OccursAt(text, tok, i) ==
    /\ i >= 1 /\ i + Len(tok) - 1 <= Len(text)
    /\ SubSeq(text, i, i + Len(tok) - 1) = tok

\* text.find(tok, from) as a 1-based index, 0 when there is none
FindFrom(text, tok, from) ==
    LET hits == {i \in from..Len(text) : OccursAt(text, tok, i)}
    IN  IF hits = {} THEN 0 ELSE CHOOSE i \in hits : \A j \in hits : i <= j

\* tok in text
Contains(text, tok) == FindFrom(text, tok, 1) > 0

RECURSIVE LStrip(_)
LStrip(text) ==
    IF Len(text) > 0 /\ text[1] \in Spaces THEN LStrip(Tail(text)) ELSE text
RECURSIVE RStrip(_)
RStrip(text) ==
    IF Len(text) > 0 /\ text[Len(text)] \in Spaces
    THEN RStrip(SubSeq(text, 1, Len(text) - 1)) ELSE text
\* text.strip()
Strip(text) == RStrip(LStrip(text))

\* the first two elements of text.split(tok): <<parts[0]>> when tok does not
\* occur, <<parts[0], parts[1]>> when it does
SplitHead(text, tok) ==
    LET a == FindFrom(text, tok, 1)
    IN  IF a = 0 THEN <<text>>
        ELSE LET b == FindFrom(text, tok, a + Len(tok))
             IN  <<SubSeq(text, 1, a - 1),
                   SubSeq(text, a + Len(tok), IF b = 0 THEN Len(text) ELSE b - 1)>>

RECURSIVE ToNumber(_)
\* int(digits)
ToNumber(digits) ==
    IF Len(digits) = 0 THEN 0
    ELSE 10 * ToNumber(SubSeq(digits, 1, Len(digits) - 1)) + DigitValue(digits[Len(digits)])

IsLeap(y) == (y % 4 = 0 /\ y % 100 # 0) \/ y % 400 = 0
DaysInMonth(y, m) ==
    IF m = 2 THEN (IF IsLeap(y) THEN 29 ELSE 28)
    ELSE IF m \in {4, 6, 9, 11} THEN 30 ELSE 31

NoDate == [ok |-> FALSE, y |-> 0, m |-> 0, d |-> 0]

\* datetime.strptime(text, '%Y-%m-%d'): four digits, '-', one or two digits,
\* '-', one or two digits, nothing after; ValueError (ok = FALSE) otherwise
\* and for a date that does not exist
strptime_ymd(text) ==
    LET a == RunEnd(text, 1, Digits)
        b == RunEnd(text, a + 2, Digits)
        e == RunEnd(text, b + 2, Digits)
    IN  IF /\ a = 4
           /\ Len(text) >= a + 1 /\ text[a + 1] = "-"
           /\ b - (a + 1) \in {1, 2}
           /\ Len(text) >= b + 1 /\ text[b + 1] = "-"
           /\ e - (b + 1) \in {1, 2}
           /\ e = Len(text)
        THEN LET y == ToNumber(SubSeq(text, 1, a))
                 m == ToNumber(SubSeq(text, a + 2, b))
                 d == ToNumber(SubSeq(text, b + 2, e))
             IN  IF y >= 1 /\ m \in 1..12 /\ d >= 1 /\ d <= DaysInMonth(y, m)
                 THEN [ok |-> TRUE, y |-> y, m |-> m, d |-> d]
                 ELSE NoDate
        ELSE NoDate

strftime_dmy(date) ==
    TwoDigits(date.d) \o <<"/">> \o TwoDigits(date.m) \o <<"/">> \o FourDigits(date.y)

\* date.strftime('%m/%d/%Y'), for the four-digit years the model uses
strftime_mdy(date) ==
    TwoDigits(date.m) \o <<"/">> \o TwoDigits(date.d) \o <<"/">> \o FourDigits(date.y)

\* text.split('T')[0]
split_T_first(text) ==
    LET i == FindFrom(text, <<"T">>, 1)
    IN  IF i = 0 THEN text ELSE SubSeq(text, 1, i - 1)

\* lines 1217-1239 of extract_new_client_fields; start is the 'start' value
\* of the event, Absent when the key is missing
appointment_date_of(start) ==
    IF ~start.has \/ start.v = EmptyText THEN NA
    ELSE LET start_date_str == start.v
             date_part == IF Contains(start_date_str, <<"T">>)
                          THEN split_T_first(start_date_str) ELSE start_date_str
             parsed == strptime_ymd(date_part)
         IN  IF parsed.ok THEN strftime_mdy(parsed)
             ELSE IF Contains(start_date_str, <<"+">>)
                     \/ (start_date_str[Len(start_date_str)] = "Z")
                  THEN LET again == strptime_ymd(split_T_first(start_date_str))
                       IN  IF again.ok THEN strftime_mdy(again) ELSE start_date_str
                  ELSE start_date_str

(***************************************************************************)
(* getAppointmentDetails (app.py:400-973).                                 *)
(*                                                                         *)
(* The sales-order page and the appointment modal are a record `dom`:      *)
(*   nav      "ok" | "raises"    goto / wait_for_selector (433-444)        *)
(*   row      "found" | "notfound"   the order row of the date (447-480)   *)
(*   phone, provider   "present" | "absent" | "raises"                     *)
(*   button   "present" | "absent" | "raises"   'View Appointment'         *)
(*   actor    [raises, spans]: the texts of span.update-entry-actor        *)
(*   charts   "absent" | "open" | "completed" | "raises"                   *)
(*   forms    "absent" | "open" | "completed" | "clickraises" | "raises"   *)
(* The middle dot of the actor label is written "*".                       *)
(***************************************************************************)
MiddleDot == "*"
TokBooked == <<"b","o","o","k","e","d">>
LblJaneBooked == <<"J","a","n","e"," ","b","o","o","k","e","d"," ","*"," ","M","o","n"," ","O","c","t"," ","6"," ","@"," ","3",":","4","8","p","m"," ","C","D","T">>
LblJaneCapBooked == <<"J","a","n","e"," ","B","o","o","k","e","d"," ","*"," ","M","o","n"," ","O","c","t"," ","6"," ","@"," ","3",":","4","8","p","m"," ","C","D","T">>
LblJaneUpdated == <<"J","a","n","e"," ","u","p","d","a","t","e","d"," ","*"," ","T","u","e"," ","O","c","t"," ","7"," ","@"," ","1",":","0","0","p","m"," ","C","D","T">>
LblJaneBookedNoDate == <<"J","a","n","e"," ","b","o","o","k","e","d">>
LblOnlineBooked == <<"b","o","o","k","e","d"," ","*"," ","F","r","i"," ","M","a","y"," ","1"," ","@"," ","9",":","0","0","a","m"," ","C","D","T">>

None == [isNone |-> TRUE, d |-> <<>>]
Some(d) == [isNone |-> FALSE, d |-> d]

\* lines 488-518
phone_details(dom) ==
    [phone_number |-> IF dom.phone = "present" THEN "555-0100" ELSE "N/A"]

RECURSIVE first_booked_span(_, _)
\* lines 545-550: index of the first span whose lower-cased text holds 'booked'
first_booked_span(spans, i) ==
    IF i > Len(spans) THEN 0
    ELSE IF Contains(Lower(Strip(spans[i])), TokBooked) THEN i
    ELSE first_booked_span(spans, i + 1)

\* lines 566-567
strip_leading_dot(after_booked) ==
    IF Len(after_booked) > 0 /\ after_booked[1] = MiddleDot
    THEN Strip(Tail(after_booked)) ELSE after_booked

\* lines 538-583
booked_details(dom) ==
    IF dom.actor.raises THEN [booked_by |-> NA, booked_date |-> NA]
    ELSE LET i == first_booked_span(dom.actor.spans, 1)
         IN  IF i = 0 THEN [booked_by |-> NA, booked_date |-> NA]
             ELSE LET parts == SplitHead(Strip(dom.actor.spans[i]), TokBooked)
                      booked_by == Strip(parts[1])
                      found == IF Len(parts) > 1
                               THEN [booked_by |-> booked_by,
                                     booked_date |-> strip_leading_dot(Strip(parts[2]))]
                               ELSE [booked_by |-> booked_by]
                  IN  IF booked_by = NA
                      THEN [booked_by |-> NA, booked_date |-> NA]
                      ELSE found

\* lines 588-624
provider_details(dom) ==
    [provider_name |-> IF dom.provider = "present" THEN "Dr. Lee" ELSE "N/A"]

\* lines 629-673
charting_details(dom) == [hasCharting |-> (dom.charts = "completed")]

PTIntakeDetails(k) ==
    [birthday |-> "01/02/1990", home_address |-> "1 Main St", cell_phone |-> "555-0100",
     phone_carrier |-> "N/A", occupation |-> "Nurse", best_contact_method |-> "Text",
     referral_source |-> "Friend", referral_name |-> "N/A",
     interests |-> InterestList(k)]

\* lines 678-961: the flag, and the sub-form when the completed form opens
forms_details(dom) ==
    CASE dom.forms = "completed" ->
            [hasCompletedPTIntakeForm |-> TRUE,
             pt_intake_form |-> PTIntakeDetails(dom.interests)]
      [] dom.forms = "clickraises" ->
            [hasCompletedPTIntakeForm |-> TRUE, pt_intake_form |-> <<>>]
      [] OTHER -> [hasCompletedPTIntakeForm |-> FALSE]

\* lines 527-961: what the opened modal adds to appointment_details
modal_details(dom) ==
    booked_details(dom) @@ provider_details(dom) @@ charting_details(dom)
        @@ forms_details(dom)

\* lines 523-967: nothing is added when the button is absent (963-964) or
\* finding / clicking it raises (966-967)
view_appointment_details(dom) ==
    IF dom.button = "present" THEN modal_details(dom) ELSE <<>>

\* the whole function
getAppointmentDetails(dom) ==
    IF dom.nav = "raises" THEN None
    ELSE IF dom.row = "notfound" THEN None
    ELSE Some(phone_details(dom) @@ view_appointment_details(dom))

ActorOptions ==
    {[raises |-> TRUE, spans |-> <<>>]}
    \cup {[raises |-> FALSE, spans |-> s] :
            s \in {<<>>, <<LblJaneUpdated>>, <<LblJaneUpdated, LblJaneBooked>>,
                   <<LblJaneCapBooked>>, <<LblJaneBookedNoDate>>, <<LblOnlineBooked>>}}

DomStates ==
    [nav : {"ok", "raises"}, row : {"found", "notfound"},
     phone : {"present", "absent", "raises"},
     button : {"present", "absent", "raises"},
     actor : ActorOptions,
     provider : {"present", "absent", "raises"},
     charts : {"absent", "open", "completed", "raises"},
     forms : {"absent", "open", "completed", "clickraises", "raises"},
     interests : {3}]

InitDetails ==
    /\ pc = "details"
    /\ page \in DomStates
    /\ extracted_data = <<None>>
    /\ events_data = Idle /\ new_client_events = <<>>
    /\ start_number = 0 /\ current_year = 0 /\ cleaned_data = <<>>
    /\ env = Idle /\ idx = 0 /\ spreadsheet = Idle /\ target_month = Idle
    /\ effects = Idle /\ history = Idle /\ disk = Idle

\* one call of getAppointmentDetails; its result is kept in extracted_data[1]
DetailsCall ==
    /\ pc = "details"
    /\ extracted_data' = <<getAppointmentDetails(page)>>
    /\ pc' = "detailed"
    /\ UNCHANGED <<runVars, events_data, new_client_events, page, idx, start_number,
                   current_year, cleaned_data>>

NextDetails == DetailsCall
SpecDetails == InitDetails /\ [][NextDetails]_vars

\* the DOM elements the scraped fields are read from, and their fields
Elements == {"phone", "actor", "provider", "charts", "forms"}
ModalElements == {"actor", "provider", "charts", "forms"}
FieldsOf(el) ==
    CASE el = "phone" -> {"phone_number"}
      [] el = "actor" -> {"booked_by", "booked_date"}
      [] el = "provider" -> {"provider_name"}
      [] el = "charts" -> {"hasCharting"}
      [] el = "forms" -> {"hasCompletedPTIntakeForm"}
ScrapedFields == UNION {FieldsOf(el) : el \in Elements}

Sentinel(f) ==
    CASE f \in {"phone_number", "provider_name"} -> "N/A"
      [] f \in {"booked_by", "booked_date"} -> NA
      [] OTHER -> FALSE

\* the element is not on the page, or reading it raises
ElementMissing(dom, el) ==
    \/ el = "phone" /\ dom.phone \in {"absent", "raises"}
    \/ el \in ModalElements /\ dom.button # "present"
    \/ el = "actor" /\ (dom.actor.raises \/ dom.actor.spans = <<>>)
    \/ el = "provider" /\ dom.provider \in {"absent", "raises"}
    \/ el = "charts" /\ dom.charts \in {"absent", "raises"}
    \/ el = "forms" /\ dom.forms \in {"absent", "raises"}

\* the same page with the element present
WithPresent(dom, el) ==
    CASE el = "phone" -> [dom EXCEPT !.phone = "present"]
      [] el = "actor" -> [dom EXCEPT !.button = "present",
                                     !.actor = [raises |-> FALSE, spans |-> <<LblJaneBooked>>]]
      [] el = "provider" -> [dom EXCEPT !.button = "present", !.provider = "present"]
      [] el = "charts" -> [dom EXCEPT !.button = "present", !.charts = "completed"]
      [] el = "forms" -> [dom EXCEPT !.button = "present", !.forms = "open"]

SameField(a, b, g) ==
    /\ (g \in DOMAIN a) <=> (g \in DOMAIN b)
    /\ g \in DOMAIN a => a[g] = b[g]

MissingElementHandled(dom, res) ==
    /\ ~res.isNone
    /\ \A el \in Elements :
          ElementMissing(dom, el) =>
              /\ \A f \in FieldsOf(el) : f \in DOMAIN res.d /\ res.d[f] = Sentinel(f)
              /\ \A g \in ScrapedFields \ FieldsOf(el) :
                    SameField(res.d, getAppointmentDetails(WithPresent(dom, el)).d, g)

\* C7: once the order row has been matched, a scraped field whose DOM element
\* is absent or whose extraction raises gets its sentinel in the returned dict,
\* the call does not raise, and every other field keeps the value it would
\* have had with that element present.
C7_MissingElementYieldsSentinel ==
    (pc = "detailed" /\ page.nav = "ok" /\ page.row = "found")
        => MissingElementHandled(page, extracted_data[1])

\* what the code does satisfy: the same statement once the 'View Appointment'
\* modal has been opened
C7_HoldsOnceModalOpened ==
    (pc = "detailed" /\ page.nav = "ok" /\ page.row = "found" /\ page.button = "present")
        => MissingElementHandled(page, extracted_data[1])

(***************************************************************************)
(* getMembershipInfo (app.py:976-1175).                                    *)
(*                                                                         *)
(* The client page is a record `cp`:                                       *)
(*   nav        "ok" | "raises"        page.goto (998)                     *)
(*   scheduled  "absent" | "raises" | "rows"    Scheduled Appointments     *)
(*   rows       the appointments of the table                              *)
(*   tab        "present" | "absent" | "raises"   Memberships tab          *)
(*   overview   "present" | "absent"                                       *)
(*   gallery    "notab" | "noheading" | "nospan" | "raises" | "text"       *)
(*   gallery_text   the first date shown in the gallery                    *)
(***************************************************************************)
\* datetime.strptime(text, "%B %d, %Y"): a full month name (any case), white
\* space, one or two digits, ',', white space, four digits, nothing after
strptime_BdY(text) ==
    LET a  == RunEnd(text, 1, Letters)
        s1 == RunEnd(text, a + 1, Spaces)
        b  == RunEnd(text, s1 + 1, Digits)
        s2 == RunEnd(text, b + 2, Spaces)
        e  == RunEnd(text, s2 + 1, Digits)
        name == Lower(SubSeq(text, 1, a))
    IN  IF /\ a >= 1 /\ \E m \in 1..12 : Lower(FullMonthNames[m]) = name
           /\ s1 >= a + 1
           /\ b - s1 \in {1, 2}
           /\ Len(text) >= b + 1 /\ text[b + 1] = ","
           /\ s2 >= b + 2
           /\ e - s2 = 4
           /\ e = Len(text)
        THEN LET m == CHOOSE x \in 1..12 : Lower(FullMonthNames[x]) = name
                 d == ToNumber(SubSeq(text, s1 + 1, b))
                 y == ToNumber(SubSeq(text, s2 + 1, e))
             IN  IF y >= 1 /\ d >= 1 /\ d <= DaysInMonth(y, m)
                 THEN [ok |-> TRUE, y |-> y, m |-> m, d |-> d]
                 ELSE NoDate
        ELSE NoDate

\* lines 1008-1055
scheduled_info(cp) ==
    [scheduled_appointments |-> IF cp.scheduled = "rows" THEN cp.rows ELSE <<>>]

\* lines 1068-1119
overview_info(cp) ==
    IF cp.overview = "present"
    THEN [status |-> "Active", start_date |-> "Oct 1, 2025", price |-> "$199"]
    ELSE <<>>

\* lines 1124-1168
gallery_info(cp) ==
    [gallery_first_date |->
        IF cp.gallery = "text" /\ cp.gallery_text # EmptyText
        THEN LET date_text == Strip(cp.gallery_text)
                 parsed == strptime_BdY(date_text)
             IN  IF parsed.ok THEN strftime_mdy(parsed) ELSE date_text
        ELSE NA]

getMembershipInfo_returning_early(cp) ==
    LET membership_info == [status |-> "N/A", start_date |-> "N/A", price |-> "N/A"]
    IN  IF cp.nav = "raises" THEN membership_info
        ELSE IF cp.tab # "present" THEN scheduled_info(cp) @@ membership_info
        ELSE IF cp.overview # "present" THEN scheduled_info(cp) @@ membership_info
        ELSE gallery_info(cp) @@ overview_info(cp) @@ scheduled_info(cp)
                 @@ membership_info

\* the whole function: a raise of page.goto or of the Memberships tab lookup
\* or click is caught by the outer except (1172), which returns what has been
\* gathered so far
getMembershipInfo(cp) ==
    LET membership_info == [status |-> "N/A", start_date |-> "N/A", price |-> "N/A"]
    IN  IF cp.nav = "raises" THEN membership_info
        ELSE IF cp.tab = "raises" THEN scheduled_info(cp) @@ membership_info
        ELSE IF cp.tab = "present"
             THEN gallery_info(cp) @@ overview_info(cp) @@ scheduled_info(cp)
                      @@ membership_info
             ELSE gallery_info(cp) @@ scheduled_info(cp) @@ membership_info

(***************************************************************************)
(* extract_new_client_fields (app.py:1178-1329), TEST_ENV = False.         *)
(*                                                                         *)
(* An event handed to it is [isdict, id, title, start] next to the flags   *)
(* the filter reads; start is Absent when the key is missing.              *)
(***************************************************************************)
\* lines 1242-1258
core_record(event) ==
    [appointment_id |-> event.id,
     client_name |-> event.title,
     appointment_date |-> appointment_date_of(event.start),
     service_name |-> "N/A",
     price |-> 0,
     client_id |-> event.id,
     staff_id |-> "N/A",
     recurring_appointment_id |-> "None",
     visit_count |-> 1]

with_details_when_found(extracted_record, appointment_details) ==
    IF ~appointment_details.isNone /\ DOMAIN appointment_details.d # {}
    THEN appointment_details.d @@ extracted_record
    ELSE extracted_record

\* lines 1275-1287
with_details(extracted_record, appointment_details) ==
    IF ~appointment_details.isNone /\ DOMAIN appointment_details.d # {}
    THEN appointment_details.d @@ extracted_record
    ELSE [phone_number |-> "N/A"] @@ extracted_record

has_photos_equal_only(appointment_date, gallery_date) == appointment_date = gallery_date

\* lines 1307-1311
has_photos(appointment_date, gallery_date) ==
    IF appointment_date # NA /\ gallery_date # NA
    THEN appointment_date = gallery_date
    ELSE FALSE

\* lines 1294-1311
with_membership(extracted_record, membership_details) ==
    LET gallery_first_date == Get(membership_details, "gallery_first_date", NA)
    IN  [membership_status |-> Get(membership_details, "status", "N/A"),
         membership_start_date |-> Get(membership_details, "start_date", "N/A"),
         membership_price |-> Get(membership_details, "price", "N/A"),
         scheduled_appointments |-> Get(membership_details, "scheduled_appointments", <<>>),
         gallery_first_date |-> gallery_first_date,
         hasPhotos |-> has_photos(Get(extracted_record, "appointment_date", NA),
                                  gallery_first_date)]
        @@ extracted_record

ReplaceLast(list, x) == [list EXCEPT ![Len(list)] = x]

after_core_skipping_details(isdict, i, n) ==
    IF isdict THEN "membership" ELSE IF i + 1 > n THEN "extracted" ELSE "core"

\* where the loop of lines 1214-1291 goes after the core record of event i of
\* n: on to the details of the same event, or, when the item raised, to the
\* next event
after_core(isdict, i, n) ==
    IF isdict THEN "details" ELSE IF i + 1 > n THEN "extracted" ELSE "core"

\* lines 1214-1260 for the event in hand: a dict event gets its core record
\* appended; any other item raises and is skipped (1289-1291)
ExtractCore ==
    /\ pc = "core"
    /\ idx <= Len(new_client_events)
    /\ IF new_client_events[idx].isdict
       THEN /\ extracted_data' = Append(extracted_data, core_record(new_client_events[idx]))
            /\ idx' = idx
       ELSE /\ extracted_data' = extracted_data
            /\ idx' = idx + 1
    /\ pc' = after_core(new_client_events[idx].isdict, idx, Len(new_client_events))
    /\ UNCHANGED <<events_data, new_client_events, page, start_number,
                   current_year, cleaned_data>>

\* lines 1267-1287: getAppointmentDetails on whatever the order page shows
ExtractDetails(SamplePages) ==
    /\ pc = "details"
    /\ \E dom \in SamplePages :
          /\ page' = dom
          /\ extracted_data' =
                 ReplaceLast(extracted_data,
                             with_details(extracted_data[Len(extracted_data)],
                                          getAppointmentDetails(dom)))
    /\ pc' = "membership"
    /\ UNCHANGED <<events_data, new_client_events, idx, start_number,
                   current_year, cleaned_data>>

\* lines 1293-1319: getMembershipInfo on whatever the client page shows
ExtractMembership(SamplePages) ==
    /\ pc = "membership"
    /\ \E cp \in SamplePages :
          extracted_data' =
              ReplaceLast(extracted_data,
                          with_membership(extracted_data[Len(extracted_data)],
                                          getMembershipInfo(cp)))
    /\ idx' = idx + 1
    /\ pc' = IF idx + 1 > Len(new_client_events) THEN "extracted" ELSE "core"
    /\ UNCHANGED <<events_data, new_client_events, page, start_number,
                   current_year, cleaned_data>>

\* event 'start' values
TimeOfDay == <<"T","1","0",":","0","0",":","0","0">>
ZoneMinus == <<"-","0","5",":","0","0">>
ZonePlus == <<"+","0","0",":","0","0">>
Zones == {ZoneMinus, ZonePlus}
DateText(y, m, d) == FourDigits(y) \o <<"-">> \o TwoDigits(m) \o <<"-">> \o TwoDigits(d)
IsoStart(y, m, d, zone) == DateText(y, m, d) \o TimeOfDay \o zone

StartYears == {2024, 2025}
StartMonths == {2, 10, 12}
StartDays == {1, 11, 29, 30}

StartOptions ==
    {Absent, Present(EmptyText), Present(TxtMonOct6),
     Present(DateText(2025, 10, 11)),
     Present(DateText(2025, 10, 11) \o TimeOfDay \o <<"Z">>),
     Present(DateText(2025, 2, 30) \o TimeOfDay \o <<"Z">>)}
    \cup {Present(IsoStart(y, m, d, z)) :
            y \in StartYears, m \in StartMonths, d \in StartDays, z \in Zones}

ExtractEvent(id, start) ==
    [isdict |-> TRUE, is_new_client |-> "True", client |-> "absent",
     id |-> id, title |-> id, start |-> start]
NonDictItem ==
    [isdict |-> FALSE, is_new_client |-> "absent", client |-> "absent",
     id |-> "x", title |-> "x", start |-> Absent]

FirstEvents == {ExtractEvent("Ann", st) : st \in StartOptions}
LaterEvents == {ExtractEvent("Bob", Present(IsoStart(2025, 10, 11, ZoneMinus))), NonDictItem}
ExtractInputs ==
    {<<>>} \cup {<<e>> \o t : e \in FirstEvents, t \in SeqsUpTo(LaterEvents, MaxEvents - 1)}

GalleryOct11 == <<"O","c","t","o","b","e","r"," ","1","1",","," ","2","0","2","5">>
GallerySep24 == <<"S","e","p","t","e","m","b","e","r"," ","2","4",","," ","2","0","2","5">>
GalleryShort == <<"O","c","t"," ","1","1",","," ","2","0","2","5">>

FullDom ==
    [nav |-> "ok", row |-> "found", phone |-> "present", button |-> "present",
     actor |-> [raises |-> FALSE, spans |-> <<LblJaneUpdated, LblJaneBooked>>],
     provider |-> "present", charts |-> "completed", forms |-> "completed",
     interests |-> 3]
OrderPageSamples ==
    {FullDom, [FullDom EXCEPT !.row = "notfound"], [FullDom EXCEPT !.nav = "raises"],
     [FullDom EXCEPT !.phone = "absent", !.button = "absent"]}

FullClientPage ==
    [nav |-> "ok", scheduled |-> "rows", rows |-> <<Appointment(TxtTueNov18)>>,
     tab |-> "present", overview |-> "present",
     gallery |-> "text", gallery_text |-> GalleryOct11]
ClientPageSamples ==
    {FullClientPage,
     [FullClientPage EXCEPT !.gallery_text = GallerySep24, !.overview = "absent"],
     [FullClientPage EXCEPT !.gallery_text = GalleryShort, !.tab = "absent"],
     [FullClientPage EXCEPT !.gallery = "notab", !.scheduled = "absent"],
     [FullClientPage EXCEPT !.nav = "raises"]}

InitExtract ==
    /\ new_client_events \in ExtractInputs
    /\ pc = IF new_client_events = <<>> THEN "extracted" ELSE "core"
    /\ idx = 1
    /\ extracted_data = <<>>
    /\ events_data = Idle /\ page = Idle
    /\ start_number = 0 /\ current_year = 0 /\ cleaned_data = <<>>
    /\ env = Idle /\ spreadsheet = Idle /\ target_month = Idle
    /\ effects = Idle /\ history = Idle /\ disk = Idle

NextExtract ==
    \/ ExtractCore /\ UNCHANGED runVars
    \/ ExtractDetails(OrderPageSamples) /\ UNCHANGED runVars
    \/ ExtractMembership(ClientPageSamples) /\ UNCHANGED runVars
SpecExtract == InitExtract /\ [][NextExtract]_vars

\* the records whose enrichment is complete
FinishedRecords ==
    IF pc \in {"details", "membership"}
    THEN 1..(Len(extracted_data) - 1) ELSE 1..Len(extracted_data)

\* C5: for every record extract_new_client_fields produces, hasPhotos is true
\* iff appointment_date and gallery_first_date are equal strings and neither is
\* the sentinel 'N/A'; it is false whenever either one is 'N/A'.
C5_HasPhotos ==
    \A r \in FinishedRecords :
        LET rec == extracted_data[r]
        IN  /\ "hasPhotos" \in DOMAIN rec
            /\ rec.hasPhotos <=> (/\ rec.appointment_date = rec.gallery_first_date
                                  /\ rec.appointment_date # NA
                                  /\ rec.gallery_first_date # NA)
            /\ (rec.appointment_date = NA \/ rec.gallery_first_date = NA) => ~rec.hasPhotos

\* a finished run with one record whose dates agree and one whose dates are
\* both 'N/A'
C5_Witness ==
    /\ pc = "extracted"
    /\ \E r \in 1..Len(extracted_data) :
          /\ extracted_data[r].hasPhotos
          /\ extracted_data[r].gallery_first_date = <<"1","0","/","1","1","/","2","0","2","5">>
    /\ \E r \in 1..Len(extracted_data) :
          /\ ~extracted_data[r].hasPhotos
          /\ extracted_data[r].appointment_date = NA
          /\ extracted_data[r].gallery_first_date = NA

\* the events a record can stem from: the dict events carrying its id
SourceEvents(rec) ==
    {new_client_events[i] : i \in {j \in 1..Len(new_client_events) :
                                      /\ new_client_events[j].isdict
                                      /\ new_client_events[j].id = rec.appointment_id}}

\* C8: an event whose 'start' is an ISO-8601 datetime 'YYYY-MM-DDThh:mm:ss+-hh:mm'
\* gets appointment_date 'MM/DD/YYYY' built from the date part, the source year
\* kept; an event with an empty or missing 'start' gets 'N/A'.
C8_AppointmentDateFormat ==
    \A r \in 1..Len(extracted_data) :
        \A e \in SourceEvents(extracted_data[r]) :
            /\ \A y \in StartYears, m \in StartMonths, z \in Zones :
                  \A d \in {x \in StartDays : x <= DaysInMonth(y, m)} :
                      e.start = Present(IsoStart(y, m, d, z)) =>
                          extracted_data[r].appointment_date =
                              TwoDigits(m) \o <<"/">> \o TwoDigits(d) \o <<"/">>
                                  \o FourDigits(y)
            /\ (~e.start.has \/ e.start.v = EmptyText) =>
                  extracted_data[r].appointment_date = NA

\* a finished run whose first event started on 2024-02-29 at -05:00
C8_Witness ==
    /\ pc = "extracted"
    /\ Len(new_client_events) >= 1
    /\ new_client_events[1].start = Present(IsoStart(2024, 2, 29, ZoneMinus))
    /\ Len(extracted_data) >= 1
    /\ extracted_data[1].appointment_date = <<"0","2","/","2","9","/","2","0","2","4">>

(***************************************************************************)
(* The spreadsheet.                                                        *)
(*                                                                         *)
(* spreadsheet maps the title of each existing worksheet to its rows, top  *)
(* row first.  A row is a sequence of cells and a cell is the text the     *)
(* sheet shows for it, a sequence of strings: the digits of a number, the  *)
(* characters of a date or of a header, or one opaque token for any other  *)
(* string.                                                                 *)
(***************************************************************************)
\* the keys of a cleaned record in the order clean_data inserts them
\* (app.py:1473-1505)
CleanedKeys == <<
    "number",
    "new_client_daily_count",
    "appointment_date",
    "next_appointment_date",
    "client_name",
    "phone_number",
    "service_name",
    "price",
    "membership",
    "visit",
    "booked_date",
    "front_desk",
    "provider_name",
    "date_treatment_plan_set",
    "photos",
    "charting",
    "occupation",
    "referral_source",
    "referral_source_2",
    "referral_name",
    "form_compliance",
    "interest_1",
    "interest_2",
    "interest_3",
    "interest_4",
    "interest_5",
    "interest_6",
    "interest_7",
    "interest_8",
    "interest_9",
    "interest_10" >>

\* the characters of a key
KeyChars(c) ==
    CASE
         c = "number" -> <<"n","u","m","b","e","r">>
      [] c = "new_client_daily_count" -> <<"n","e","w","_","c","l","i","e","n","t","_","d","a","i","l","y","_","c","o","u","n","t">>
      [] c = "appointment_date" -> <<"a","p","p","o","i","n","t","m","e","n","t","_","d","a","t","e">>
      [] c = "next_appointment_date" -> <<"n","e","x","t","_","a","p","p","o","i","n","t","m","e","n","t","_","d","a","t","e">>
      [] c = "client_name" -> <<"c","l","i","e","n","t","_","n","a","m","e">>
      [] c = "phone_number" -> <<"p","h","o","n","e","_","n","u","m","b","e","r">>
      [] c = "service_name" -> <<"s","e","r","v","i","c","e","_","n","a","m","e">>
      [] c = "price" -> <<"p","r","i","c","e">>
      [] c = "membership" -> <<"m","e","m","b","e","r","s","h","i","p">>
      [] c = "visit" -> <<"v","i","s","i","t">>
      [] c = "booked_date" -> <<"b","o","o","k","e","d","_","d","a","t","e">>
      [] c = "front_desk" -> <<"f","r","o","n","t","_","d","e","s","k">>
      [] c = "provider_name" -> <<"p","r","o","v","i","d","e","r","_","n","a","m","e">>
      [] c = "date_treatment_plan_set" -> <<"d","a","t","e","_","t","r","e","a","t","m","e","n","t","_","p","l","a","n","_","s","e","t">>
      [] c = "photos" -> <<"p","h","o","t","o","s">>
      [] c = "charting" -> <<"c","h","a","r","t","i","n","g">>
      [] c = "occupation" -> <<"o","c","c","u","p","a","t","i","o","n">>
      [] c = "referral_source" -> <<"r","e","f","e","r","r","a","l","_","s","o","u","r","c","e">>
      [] c = "referral_source_2" -> <<"r","e","f","e","r","r","a","l","_","s","o","u","r","c","e","_","2">>
      [] c = "referral_name" -> <<"r","e","f","e","r","r","a","l","_","n","a","m","e">>
      [] c = "form_compliance" -> <<"f","o","r","m","_","c","o","m","p","l","i","a","n","c","e">>
      [] c = "interest_1" -> <<"i","n","t","e","r","e","s","t","_","1">>
      [] c = "interest_2" -> <<"i","n","t","e","r","e","s","t","_","2">>
      [] c = "interest_3" -> <<"i","n","t","e","r","e","s","t","_","3">>
      [] c = "interest_4" -> <<"i","n","t","e","r","e","s","t","_","4">>
      [] c = "interest_5" -> <<"i","n","t","e","r","e","s","t","_","5">>
      [] c = "interest_6" -> <<"i","n","t","e","r","e","s","t","_","6">>
      [] c = "interest_7" -> <<"i","n","t","e","r","e","s","t","_","7">>
      [] c = "interest_8" -> <<"i","n","t","e","r","e","s","t","_","8">>
      [] c = "interest_9" -> <<"i","n","t","e","r","e","s","t","_","9">>
      [] c = "interest_10" -> <<"i","n","t","e","r","e","s","t","_","1","0">>

IntKeys == {"number", "price", "visit"}
TextKeys == {"appointment_date", "next_appointment_date", "booked_date", "front_desk"}

RECURSIVE IntText(_)
\* str(n) for n >= 0
IntText(n) == IF n < 10 THEN <<Digit(n)>> ELSE IntText(n \div 10) \o <<Digit(n % 10)>>

\* the text a value written to a cell is shown as
CellOf(key, value) ==
    IF key \in IntKeys THEN IntText(value)
    ELSE IF key \in TextKeys THEN value
    ELSE IF value = "" THEN <<>> ELSE <<value>>

UpperChar(c) ==
    IF c \in LowerLetters THEN UpperSeq[CHOOSE i \in 1..26 : LowerSeq[i] = c] ELSE c

\* text.replace(old, new) for single characters
ReplaceChar(text, old, new) ==
    [i \in 1..Len(text) |-> IF text[i] = old THEN new ELSE text[i]]

\* text.title(): a letter that follows a non-letter is upper-cased, any other
\* letter lower-cased
Title(text) ==
    [i \in 1..Len(text) |->
        IF i = 1 \/ text[i - 1] \notin Letters THEN UpperChar(text[i])
        ELSE LowerChar(text[i])]

\* line 1592: key.replace('_', ' ').title()
header_of(key) == Title(ReplaceChar(KeyChars(key), "_", " "))

\* line 1592 for the keys of the first record
headers_of(keys) == [i \in 1..Len(keys) |-> header_of(keys[i])]

\* line 1613: [record.get(key, '') for key in cleaned_data[0].keys()]
row_of(record, keys) ==
    [i \in 1..Len(keys) |->
        IF keys[i] \in DOMAIN record THEN CellOf(keys[i], record[keys[i]]) ELSE <<>>]

\* lines 1610-1614
data_rows_of(cleaned, keys) == [i \in 1..Len(cleaned) |-> row_of(cleaned[i], keys)]

\* worksheet.update('A1', [headers]): the first cells of row 1 are overwritten
update_A1(rows, headers) ==
    [rows EXCEPT ![1] = headers \o SubSeq(rows[1], Len(headers) + 1, Len(rows[1]))]

with_header_always_inserted(rows, headers) == <<headers>> \o rows

\* lines 1594-1608: insert the header row into a sheet without values (where
\* get_all_values() is [] or [[]]), overwrite a first row that differs from
\* the headers
with_header(rows, headers) ==
    IF \A i \in 1..Len(rows) : rows[i] = <<>> THEN <<headers>> \o rows
    ELSE IF rows[1] # headers THEN update_A1(rows, headers)
    ELSE rows

append_rows_over_old(rows, data_rows) == <<rows[1]>> \o data_rows

\* line 1619: worksheet.append_rows(data_rows)
append_rows(rows, data_rows) == rows \o data_rows

\* lines 1569-1579: the month sheets that are always ensured to exist
month_sheets == <<"October", "November", "December">>

\* spreadsheet.add_worksheet for every missing title of month_sheets
with_month_sheets(sheets) ==
    [title \in DOMAIN sheets \cup {month_sheets[i] : i \in 1..Len(month_sheets)} |->
        IF title \in DOMAIN sheets THEN sheets[title] ELSE <<>>]

\* lines 1531-1535 and 1341-1343
sheets_configured(e) == e.creds /\ e.sheet_id

\* append_to_google_sheets (app.py:1513-1634) as <<success, spreadsheet after>>.
\* fail names the API call that raises, if any: "open" (authorize /
\* open_by_key, before anything is written) or "append" (append_rows, after
\* the sheets and the header have been written).
append_to_google_sheets(cleaned, sheets, month, e, fail) ==
    IF ~sheets_configured(e) THEN <<FALSE, sheets>>
    ELSE IF fail = "open" THEN <<FALSE, sheets>>
    ELSE LET ensured == with_month_sheets(sheets)
         IN  IF month \notin DOMAIN ensured THEN <<FALSE, ensured>>
             ELSE IF cleaned = <<>> THEN <<FALSE, ensured>>
             ELSE LET headed == with_header(ensured[month], headers_of(CleanedKeys))
                  IN  IF fail = "append"
                      THEN <<FALSE, [ensured EXCEPT ![month] = headed]>>
                      ELSE <<TRUE, [ensured EXCEPT ![month] =
                                       append_rows(headed, data_rows_of(cleaned, CleanedKeys))]>>

RECURSIVE TrimTrailingEmpty(_)
TrimTrailingEmpty(col) ==
    IF Len(col) > 0 /\ col[Len(col)] = <<>>
    THEN TrimTrailingEmpty(SubSeq(col, 1, Len(col) - 1)) ELSE col

\* worksheet.col_values(1): column A, trailing empty cells dropped
col_values_1(rows) ==
    TrimTrailingEmpty([i \in 1..Len(rows) |-> IF Len(rows[i]) >= 1 THEN rows[i][1] ELSE <<>>])

\* int(text), 0 standing for the ValueError branch (1389-1391)
int_or_zero(text) ==
    IF Len(text) >= 1 /\ \A i \in 1..Len(text) : Len(text[i]) = 1 /\ text[i] \in Digits
    THEN ToNumber(text) ELSE 0

\* get_last_row_number_from_sheets (app.py:1332-1395); ok is FALSE when an API
\* call raises (1393-1395)
get_last_row_number_from_sheets(sheets, month, e, ok) ==
    IF ~sheets_configured(e) THEN 0
    ELSE IF ~ok THEN 0
    ELSE IF month \notin DOMAIN sheets THEN 0
    ELSE LET all_values == col_values_1(sheets[month])
         IN  IF Len(all_values) <= 1 THEN 0
             ELSE int_or_zero(all_values[Len(all_values)])

(***************************************************************************)
(* Login (app.py:48-138).                                                  *)
(*                                                                         *)
(* A site is what the dashboard does during one perform_login call: goto   *)
(* and fill are "ok" or "raises"; form tells whether the e-mail input      *)
(* appears before LOGIN_TIMEOUT; url_login, form_visible and               *)
(* visible_raises are what is_on_login_page sees; menu_wait is the wait    *)
(* for horizontal-menu after the submit ("found", "timeout", or "error"    *)
(* for any other exception); menu_check is what verify_logged_in sees;     *)
(* save is the outcome of context.storage_state.                           *)
(***************************************************************************)
\* lines 58-64: URL test OR form visibility; any exception gives False
is_on_login_page(site) ==
    IF site.visible_raises THEN FALSE ELSE site.url_login \/ site.form_visible

\* lines 77-85
verify_logged_in(site) ==
    IF site.menu_check = "raises" THEN FALSE ELSE site.menu_check = "visible"

LoginResult(ok, submitted, saved) ==
    [ok |-> ok, form_submitted |-> submitted, session_saved |-> saved]

perform_login_strict_wait(site) ==
    IF site.goto = "raises" \/ site.form = "timeout" THEN LoginResult(FALSE, FALSE, FALSE)
    ELSE IF ~is_on_login_page(site) THEN LoginResult(verify_logged_in(site), FALSE, FALSE)
    ELSE IF site.fill = "raises" THEN LoginResult(FALSE, FALSE, FALSE)
    ELSE IF site.menu_wait # "found" THEN LoginResult(FALSE, TRUE, FALSE)
    ELSE IF ~verify_logged_in(site) THEN LoginResult(FALSE, TRUE, FALSE)
    ELSE IF site.save = "raises" THEN LoginResult(FALSE, TRUE, FALSE)
    ELSE LoginResult(TRUE, TRUE, TRUE)

perform_login_unsaved(site) ==
    IF site.goto = "raises" \/ site.form = "timeout" THEN LoginResult(FALSE, FALSE, FALSE)
    ELSE IF ~is_on_login_page(site) THEN LoginResult(verify_logged_in(site), FALSE, FALSE)
    ELSE IF site.fill = "raises" THEN LoginResult(FALSE, FALSE, FALSE)
    ELSE IF site.menu_wait = "error" THEN LoginResult(FALSE, TRUE, FALSE)
    ELSE IF ~verify_logged_in(site) THEN LoginResult(FALSE, TRUE, FALSE)
    ELSE LoginResult(TRUE, TRUE, FALSE)

\* perform_login (88-138): whether it returned True, whether the form was
\* submitted, whether the session file was written
perform_login(site) ==
    IF site.goto = "raises" \/ site.form = "timeout" THEN LoginResult(FALSE, FALSE, FALSE)
    ELSE IF ~is_on_login_page(site) THEN LoginResult(verify_logged_in(site), FALSE, FALSE)
    ELSE IF site.fill = "raises" THEN LoginResult(FALSE, FALSE, FALSE)
    ELSE IF site.menu_wait = "error" THEN LoginResult(FALSE, TRUE, FALSE)
    ELSE IF ~verify_logged_in(site) THEN LoginResult(FALSE, TRUE, FALSE)
    ELSE IF site.save = "raises" THEN LoginResult(FALSE, TRUE, FALSE)
    ELSE LoginResult(TRUE, TRUE, TRUE)

\* the page and context calls one perform_login call makes, in order, up to
\* the one it returns after or that raises (lines 101-134)
login_calls(site) ==
    IF site.goto = "raises" THEN <<"goto">>
    ELSE IF site.form = "timeout" THEN <<"goto", "wait_form">>
    ELSE IF ~is_on_login_page(site)
    THEN <<"goto", "wait_form", "is_on_login_page", "verify_logged_in">>
    ELSE IF site.fill = "raises" THEN <<"goto", "wait_form", "is_on_login_page", "fill">>
    ELSE IF site.menu_wait = "error"
    THEN <<"goto", "wait_form", "is_on_login_page", "fill", "click", "wait_menu">>
    ELSE IF ~verify_logged_in(site)
    THEN <<"goto", "wait_form", "is_on_login_page", "fill", "click", "wait_menu",
           "verify_logged_in">>
    ELSE <<"goto", "wait_form", "is_on_login_page", "fill", "click", "wait_menu",
           "verify_logged_in", "storage_state">>

LoginSites ==
    [goto : {"ok", "raises"}, form : {"appears", "timeout"},
     url_login : BOOLEAN, form_visible : BOOLEAN, visible_raises : BOOLEAN,
     fill : {"ok", "raises"}, menu_wait : {"found", "timeout", "error"},
     menu_check : {"visible", "hidden", "raises"}, save : {"ok", "raises"}]

\* everything one perform_login call can come to
LoginOutcomes == {perform_login(site) : site \in LoginSites}

(***************************************************************************)
(* main (app.py:1637-1765), run after run against the same spreadsheet.    *)
(*                                                                         *)
(* env tells which environment values are set.  effects records what the   *)
(* current run has done: the run's index, the stages it has entered, what  *)
(* became of the browser, whether perform_login was called and returned    *)
(* True, the calendar response, whether an order or client page was        *)
(* scraped, the JSON file written, the spreadsheet service contacted for   *)
(* reading or for writing, an error logged, how append_to_google_sheets    *)
(* returned and which of its API calls raised, and what the spreadsheet    *)
(* and the target sheet held before.                                       *)
(***************************************************************************)
credentials_set_email_only(e) == e.email

\* line 1641: if not EMAIL or not PASSWORD
credentials_set(e) == e.email /\ e.password

Environments == [email : BOOLEAN, password : BOOLEAN, creds : BOOLEAN, sheet_id : BOOLEAN]

NoResponse == [raises |-> FALSE, status |-> 0]

FreshEffects(run, files, sheets) ==
    [run |-> run, stages |-> <<>>, browser |-> "none",
     session_at_start |-> files.session, session_loaded |-> FALSE,
     login |-> FALSE, login_ok |-> FALSE,
     fetched |-> FALSE, response |-> NoResponse, scraped |-> FALSE,
     json |-> FALSE, sheet_read |-> FALSE, sheet_written |-> FALSE,
     error |-> FALSE, appended |-> "no", fault |-> "none",
     sheets_at_start |-> sheets, had_sheet |-> FALSE, sheet_before |-> <<>>]

\* a stage the run enters, with the index of the record it works on
Stage(name, record) == [stage |-> name, record |-> record]
Enter(e, name, record) == [e EXCEPT !.stages = Append(@, Stage(name, record))]

\* lines 1673-1674 and 1756-1764: the browser is closed when the run ends
Closed(e) == [e EXCEPT !.browser = "closed"]

\* lines 1659-1663: new_context(viewport, user_agent) is given no
\* storage_state, whatever the working directory holds
new_context_storage(files) == FALSE

\* yesterday.strftime("%B") (1362-1363, 1563-1564) as the days go by
MonthCycle == <<"November", "December", "January", "February">>
MonthIndex(m) == CHOOSE i \in 1..Len(MonthCycle) : MonthCycle[i] = m
LaterMonths(m) ==
    {m} \cup {MonthCycle[i] : i \in {j \in 1..Len(MonthCycle) : j = MonthIndex(m) + 1}}

\* the calendar the API answers from (START_DATE..END_DATE are fixed, 1681-1682)
Calendar ==
    << ExtractEvent("Ann", Present(IsoStart(2025, 10, 11, ZoneMinus))),
       ExtractEvent("Bob", Present(IsoStart(2025, 10, 1, ZoneMinus))),
       [ExtractEvent("Cy", Present(IsoStart(2025, 10, 11, ZoneMinus)))
           EXCEPT !.is_new_client = "False"],
       [ExtractEvent("Dee", Present(IsoStart(2025, 10, 11, ZonePlus)))
           EXCEPT !.is_new_client = "absent", !.client = "dict:True"] >>

ListRaw(l) ==
    [kind |-> "list", items |-> l, hasEvents |-> FALSE, events |-> <<>>,
     hasData |-> FALSE, data |-> <<>>]
NoneRaw == [ListRaw(<<>>) EXCEPT !.kind = "none"]

\* what the body of the calendar response can parse to: null, a list of
\* events, or an object holding them
FetchResults ==
    {NoneRaw}
    \cup {ListRaw(SubSeq(Calendar, 1, n)) :
             n \in {k \in 0..MaxEvents : k <= Len(Calendar)}}
    \cup {[ListRaw(<<>>) EXCEPT !.kind = "dict", !.hasEvents = TRUE,
                                !.events = SubSeq(Calendar, 1, 1)]}
    \cup {[ListRaw(<<>>) EXCEPT !.kind = "dict"]}

\* the calendar API's answers: the request raises, or a status and a body
Responses ==
    [raises : BOOLEAN, status : {200, 500}, body : FetchResults]

fetch_calendar_events_any_status(response) ==
    IF response.raises THEN NoneRaw ELSE response.body

\* fetch_calendar_events (222-282): None when the request raises (280-282),
\* when the status is not 200 (264-267) and when len(data) raises on null
fetch_calendar_events(response) ==
    IF response.raises THEN NoneRaw
    ELSE IF response.status # 200 THEN NoneRaw
    ELSE response.body

raw_truthy_unless_none(raw) == raw.kind # "none"

\* bool(events_data) at line 1694
raw_truthy(raw) ==
    CASE raw.kind = "list" -> raw.items # <<>>
      [] raw.kind = "dict" -> raw.hasEvents \/ raw.hasData
      [] OTHER -> FALSE

MainOrderPages == {FullDom}
MainClientPages == {FullClientPage}

\* sheets a spreadsheet can hold before the first run: none, an empty sheet
\* for the month, or a sheet somebody filled by hand, with or without a
\* header row
OtherHeader == << <<"#">>, <<"Date">>, <<"Client">> >>
UserRow(n) == << IntText(n), <<"10/01/2025">>, <<"Zed">> >>
UserRows(n) == [i \in 1..n |-> UserRow(i)]
InitialSheets(month) ==
    {<<>>}
    \cup {[t \in {month} |-> <<>>]}
    \cup {[t \in {month} |-> <<OtherHeader>> \o UserRows(n)] : n \in 0..MaxRows}
    \cup {[t \in {month} |-> UserRows(n)] : n \in 1..MaxRows}

json_dump_first_only(cleaned) == Some(SubSeq(cleaned, 1, 1))

\* lines 1723-1726: json.dump(cleaned_data, f) replaces the file's content
json_dump(cleaned) == Some(cleaned)

Init ==
    /\ pc = "start"
    /\ env \in Environments
    /\ target_month \in {MonthCycle[1], MonthCycle[2]}
    /\ spreadsheet \in InitialSheets(target_month)
    /\ disk = [session |-> FALSE, json |-> None]
    /\ effects = FreshEffects(1, disk, spreadsheet)
    /\ history = <<>>
    /\ current_year = 2025
    /\ events_data = NoneRaw /\ new_client_events = <<>> /\ page = Idle /\ idx = 1
    /\ extracted_data = <<>> /\ start_number = 0 /\ cleaned_data = <<>>

\* lines 1641-1666: the credentials check, then browser, context and page
MainStart ==
    /\ pc = "start"
    /\ IF credentials_set(env)
       THEN /\ pc' = "login"
            /\ effects' = [effects EXCEPT !.browser = "open",
                                          !.session_loaded = new_context_storage(disk)]
       ELSE /\ pc' = "ended"
            /\ effects' = [effects EXCEPT !.error = TRUE]
    /\ UNCHANGED <<env, disk, events_data, new_client_events, page, idx, extracted_data,
                   start_number, current_year, cleaned_data, spreadsheet,
                   target_month, history>>

after_login_always_fetch(login_success) == "fetch"

\* lines 1672-1675
after_login(login_success) == IF login_success THEN "fetch" ELSE "ended"

\* lines 1668-1675: perform_login, and the browser closed when it fails
MainLogin ==
    /\ pc = "login"
    /\ \E result \in LoginOutcomes :
          LET entered == Enter(effects, "LOGIN", 0)
              logged == [entered EXCEPT !.login = TRUE, !.login_ok = result.ok,
                                        !.error = ~result.ok]
          IN  /\ pc' = after_login(result.ok)
              /\ effects' = IF result.ok THEN logged ELSE Closed(logged)
              /\ disk' = IF result.session_saved
                         THEN [disk EXCEPT !.session = TRUE] ELSE disk
    /\ UNCHANGED <<env, events_data, new_client_events, page, idx, extracted_data,
                   start_number, current_year, cleaned_data, spreadsheet,
                   target_month, history>>

\* lines 1684-1694 and 1753-1764
MainFetch ==
    /\ pc = "fetch"
    /\ \E response \in Responses :
          LET result == fetch_calendar_events(response)
              entered == Enter(effects, "FETCH", 0)
              fetched == [entered EXCEPT
                             !.fetched = TRUE, !.error = ~raw_truthy(result),
                             !.response = [raises |-> response.raises,
                                           status |-> IF response.raises THEN 0
                                                      ELSE response.status]]
          IN  /\ events_data' = result
              /\ pc' = IF raw_truthy(result) THEN "filter" ELSE "ended"
              /\ effects' = IF raw_truthy(result) THEN fetched ELSE Closed(fetched)
    /\ UNCHANGED <<env, disk, new_client_events, page, idx, extracted_data, start_number,
                   current_year, cleaned_data, spreadsheet, target_month, history>>

\* lines 1698-1706 and 1750-1764
MainFilter ==
    /\ pc = "filter"
    /\ new_client_events' = filter_new_clients_from_raw(events_data)
    /\ pc' = IF new_client_events' = <<>> THEN "ended" ELSE "core"
    /\ effects' = IF new_client_events' = <<>>
                  THEN Closed(Enter(effects, "FILTER", 0))
                  ELSE Enter(effects, "FILTER", 0)
    /\ idx' = 1
    /\ extracted_data' = <<>>
    /\ UNCHANGED <<env, disk, events_data, page, start_number, current_year, cleaned_data,
                   spreadsheet, target_month, history>>

MainExtractCore ==
    /\ ExtractCore
    /\ UNCHANGED runVars

MainExtractDetails ==
    /\ ExtractDetails(MainOrderPages)
    /\ effects' = [Enter(effects, "ENRICH_DETAILS", idx) EXCEPT !.scraped = TRUE]
    /\ UNCHANGED <<env, disk, spreadsheet, target_month, history>>

MainExtractMembership ==
    /\ ExtractMembership(MainClientPages)
    /\ effects' = [Enter(effects, "ENRICH_MEMBERSHIP", idx) EXCEPT !.scraped = TRUE]
    /\ UNCHANGED <<env, disk, spreadsheet, target_month, history>>

\* lines 1708-1715 and 1747-1764
MainLastRow ==
    /\ pc = "extracted"
    /\ IF extracted_data = <<>>
       THEN pc' = "ended" /\ start_number' = start_number /\ effects' = Closed(effects)
       ELSE \E ok \in BOOLEAN :
               /\ start_number' =
                      get_last_row_number_from_sheets(spreadsheet, target_month, env, ok) + 1
               /\ effects' = [effects EXCEPT !.sheet_read = sheets_configured(env)]
               /\ pc' = "clean"
    /\ UNCHANGED <<env, disk, events_data, new_client_events, page, idx, extracted_data,
                   current_year, cleaned_data, spreadsheet, target_month, history>>

\* line 1721
MainClean ==
    /\ pc = "clean"
    /\ cleaned_data' = clean_data(extracted_data, start_number, current_year)
    /\ effects' = Enter(effects, "CLEAN", 0)
    /\ pc' = "json"
    /\ UNCHANGED <<env, disk, spreadsheet, target_month, history, events_data,
                   new_client_events, page, idx, extracted_data, start_number,
                   current_year>>

\* lines 1723-1728; an exception of open or json.dump ends the run in the
\* handler at 1766-1767
MainWriteJson ==
    /\ pc = "json"
    /\ \E written \in BOOLEAN :
          IF written
          THEN /\ disk' = [disk EXCEPT !.json = json_dump(cleaned_data)]
               /\ effects' = [Enter(effects, "JSON", 0) EXCEPT !.json = TRUE]
               /\ pc' = "append"
          ELSE /\ disk' = disk
               /\ effects' = Closed([Enter(effects, "JSON", 0) EXCEPT !.error = TRUE])
               /\ pc' = "ended"
    /\ UNCHANGED <<env, events_data, new_client_events, page, idx, extracted_data,
                   start_number, current_year, cleaned_data, spreadsheet,
                   target_month, history>>

\* what history records of an appended row: its number, its sheet and the
\* appointment it was made from
Appended(cleaned, extracted, month) ==
    [i \in 1..Len(cleaned) |->
        [number |-> cleaned[i].number, sheet |-> month,
         appointment_id |-> extracted[i].appointment_id,
         client_name |-> cleaned[i].client_name,
         appointment_date |-> cleaned[i].appointment_date]]

\* lines 1731-1764
MainAppend ==
    /\ pc = "append"
    /\ \E fail \in {"none", "open", "append"} :
          LET result == append_to_google_sheets(cleaned_data, spreadsheet,
                                                target_month, env, fail)
          IN  /\ spreadsheet' = result[2]
              /\ history' = IF result[1]
                            THEN history \o Appended(cleaned_data, extracted_data, target_month)
                            ELSE history
              /\ effects' = Closed([Enter(effects, "APPEND", 0) EXCEPT
                    !.sheet_written = sheets_configured(env),
                    !.error = ~result[1],
                    !.appended = IF result[1] THEN "ok" ELSE "failed",
                    !.fault = IF sheets_configured(env) THEN fail ELSE "none",
                    !.had_sheet = target_month \in DOMAIN spreadsheet,
                    !.sheet_before = IF target_month \in DOMAIN spreadsheet
                                     THEN spreadsheet[target_month] ELSE <<>>])
    /\ pc' = "ended"
    /\ UNCHANGED <<env, disk, events_data, new_client_events, page, idx, extracted_data,
                   start_number, current_year, cleaned_data, target_month>>

\* the next run starts, the same day or a month later
MainNextRun ==
    /\ pc = "ended"
    /\ effects.run < MaxRuns
    /\ \E month \in LaterMonths(target_month) :
          /\ target_month' = month
          /\ current_year' = IF month = "January" /\ target_month # "January"
                             THEN current_year + 1 ELSE current_year
    /\ effects' = FreshEffects(effects.run + 1, disk, spreadsheet)
    /\ pc' = "start"
    /\ events_data' = NoneRaw /\ new_client_events' = <<>> /\ idx' = 1
    /\ extracted_data' = <<>> /\ start_number' = 0 /\ cleaned_data' = <<>>
    /\ page' = Idle
    /\ UNCHANGED <<env, disk, spreadsheet, history>>

Next ==
    \/ MainStart
    \/ MainLogin
    \/ MainFetch
    \/ MainFilter
    \/ MainExtractCore
    \/ MainExtractDetails
    \/ MainExtractMembership
    \/ MainLastRow
    \/ MainClean
    \/ MainWriteJson
    \/ MainAppend
    \/ MainNextRun
Spec == Init /\ [][Next]_vars

(***************************************************************************)
(* Claims about main.                                                      *)
(***************************************************************************)
\* C3: after any sequence of runs the 'number' values of all data rows ever
\* appended are strictly increasing in the order the rows were appended,
\* across runs and across monthly sheets.
C3_NumbersStrictlyIncreasing ==
    \A i, j \in 1..Len(history) : i < j => history[i].number < history[j].number

AppendSucceeded == pc = "ended" /\ effects.appended = "ok"
HeldHeader(rows) == Len(rows) >= 1 /\ rows[1] # <<>>
DerivedHeaders == headers_of(CleanedKeys)

NothingDone ==
    /\ ~effects.login /\ ~effects.fetched /\ ~effects.scraped /\ ~effects.json
    /\ ~effects.sheet_read /\ ~effects.sheet_written

\* C10 as stated: if any of the four environment values is absent the run
\* aborts with a logged error before any login, fetch, scraping, JSON write
\* or spreadsheet access.
C10_AnyMissingValueAborts ==
    (~env.email \/ ~env.password \/ ~env.creds \/ ~env.sheet_id) =>
        /\ NothingDone
        /\ pc = "ended" => effects.error

\* C10, amended: if the login email or password is absent the run aborts
\* with a logged error before any login, fetch, scraping, JSON write or
\* spreadsheet access; if only the credential blob or the spreadsheet
\* identifier is absent the run goes on, never contacts the spreadsheet, and
\* its append returns false with a logged error.
C10_MissingLoginValueAborts ==
    /\ (~env.email \/ ~env.password) =>
          /\ NothingDone
          /\ pc \in {"start", "ended"}
          /\ pc = "ended" => effects.error
    /\ (~env.creds \/ ~env.sheet_id) =>
          /\ ~effects.sheet_read /\ ~effects.sheet_written
          /\ history = <<>>
          /\ effects.appended # "ok"
          /\ effects.appended = "failed" => effects.error

C10_Witness ==
    /\ ~env.password /\ env.email /\ env.creds /\ env.sheet_id
    /\ pc = "ended" /\ effects.error /\ NothingDone

\* C11: if the initial perform_login returns false, main closes the browser
\* and ends the run without fetching the calendar, enriching a record,
\* writing the cleaned JSON file, or reading or appending to the spreadsheet.
C11_LoginFailureEndsRun ==
    (effects.login /\ ~effects.login_ok) =>
        /\ pc = "ended"
        /\ effects.browser = "closed"
        /\ effects.stages = <<Stage("LOGIN", 0)>>
        /\ ~effects.fetched /\ ~effects.scraped /\ ~effects.json
        /\ ~effects.sheet_read /\ ~effects.sheet_written
        /\ spreadsheet = effects.sheets_at_start

C11_Witness ==
    /\ effects.login /\ ~effects.login_ok
    /\ pc = "ended" /\ effects.error /\ effects.browser = "closed"

\* C12: when a session file saved by an earlier run is present at start-up,
\* the run loads it into the browser context it creates.
C12_StoredSessionReused ==
    (effects.session_at_start /\ effects.browser # "none") => effects.session_loaded

\* C13: after any sequence of runs every appointment is represented by at
\* most one spreadsheet row: no appointment is written again by a later run.
C13_OneRowPerAppointment ==
    \A i, j \in 1..Len(history) :
        i < j => history[i].appointment_id # history[j].appointment_id

AppendCalled == pc = "ended" /\ effects.appended # "no"
TargetSheet == IF target_month \in DOMAIN spreadsheet THEN spreadsheet[target_month] ELSE <<>>
NumberCell(cell) == cell # <<>> /\ \A k \in 1..Len(cell) : cell[k] \in Digits
IsDataRow(row) == Len(row) >= 1 /\ NumberCell(row[1])
DataRows(rows) == SelectSeq(rows, IsDataRow)

\* C14 as stated: for every prior content of the target sheet, every data
\* row that existed before append_to_google_sheets was called still exists
\* after it, with identical cells and in the same relative order, the new
\* rows coming after them.
C14_AppendOnly ==
    AppendCalled =>
        /\ Len(DataRows(effects.sheet_before)) <= Len(DataRows(TargetSheet))
        /\ DataRows(effects.sheet_before) =
               SubSeq(DataRows(TargetSheet), 1, Len(DataRows(effects.sheet_before)))

\* C14, amended: every row below the first row of the target sheet is still
\* there after the call, with identical cells and at the same position, and
\* rows are only added after them; the first row is kept when it is the
\* header derived from the record keys and is overwritten with that header
\* otherwise, even when it held data.
C14_RowsBelowFirstKept ==
    AppendCalled =>
        /\ Len(effects.sheet_before) <= Len(TargetSheet)
        /\ \A i \in 2..Len(effects.sheet_before) : TargetSheet[i] = effects.sheet_before[i]
        /\ Len(effects.sheet_before) >= 1 =>
               TargetSheet[1] \in {effects.sheet_before[1], DerivedHeaders}
        /\ \A i \in (Len(effects.sheet_before) + 1)..Len(TargetSheet) :
               i = 1 \/ IsDataRow(TargetSheet[i])

C14_Witness ==
    /\ AppendCalled /\ effects.appended = "ok"
    /\ Len(effects.sheet_before) >= 2
    /\ IsDataRow(effects.sheet_before[1])
    /\ TargetSheet[1] = DerivedHeaders

\* C15: for every month 'yesterday' can fall in, if the spreadsheet has no
\* sheet named after that month, append_to_google_sheets creates the sheet
\* and then appends the records to it.
C15_MissingMonthSheetCreated ==
    (AppendCalled /\ env.creds /\ env.sheet_id /\ effects.fault = "none"
        /\ ~effects.had_sheet) =>
        /\ target_month \in DOMAIN spreadsheet
        /\ effects.appended = "ok"
        /\ Len(TargetSheet) = 1 + Len(cleaned_data)

\* the same for the months listed in month_sheets
C15_ListedMonthSheetCreated ==
    (AppendCalled /\ env.creds /\ env.sheet_id /\ effects.fault = "none"
        /\ ~effects.had_sheet /\ target_month \in {"October", "November", "December"}) =>
        /\ target_month \in DOMAIN spreadsheet
        /\ effects.appended = "ok"
        /\ Len(TargetSheet) = 1 + Len(cleaned_data)

\* the stages the claim names, as the run has entered them
ClaimedStages == SelectSeq(effects.stages, LAMBDA st : st.stage # "JSON")
Entered(name) == \E k \in 1..Len(effects.stages) : effects.stages[k].stage = name
TimesEntered(name) ==
    Cardinality({k \in 1..Len(effects.stages) : effects.stages[k].stage = name})

\* LOGIN, FETCH, FILTER, then details and membership of record 1, of record
\* 2, ..., then CLEAN and APPEND
StageOrder(n) ==
    <<Stage("LOGIN", 0), Stage("FETCH", 0), Stage("FILTER", 0)>>
    \o [k \in 1..(2 * n) |->
           IF k % 2 = 1 THEN Stage("ENRICH_DETAILS", (k + 1) \div 2)
           ELSE Stage("ENRICH_MEMBERSHIP", k \div 2)]
    \o <<Stage("CLEAN", 0), Stage("APPEND", 0)>>

IsPrefix(short, long) ==
    Len(short) <= Len(long) /\ short = SubSeq(long, 1, Len(short))

FetchFailed ==
    effects.fetched /\ (effects.response.raises \/ effects.response.status # 200)

\* C17: if the calendar API answers with a status other than 200, or the
\* request raises, fetch_calendar_events returns None and main runs none of
\* filter, enrichment, cleaning, JSON write or spreadsheet append.
C17_FailedFetchEndsRun ==
    FetchFailed =>
        /\ events_data = NoneRaw
        /\ pc = "ended"
        /\ effects.stages = <<Stage("LOGIN", 0), Stage("FETCH", 0)>>
        /\ new_client_events = <<>> /\ extracted_data = <<>> /\ cleaned_data = <<>>
        /\ ~effects.scraped /\ ~effects.json
        /\ ~effects.sheet_read /\ ~effects.sheet_written /\ effects.appended = "no"
        /\ spreadsheet = effects.sheets_at_start

C17_Witness ==
    /\ effects.fetched /\ ~effects.response.raises /\ effects.response.status = 500
    /\ pc = "ended" /\ effects.error

\* C18: in every run that reaches cleaning the cleaned-records JSON file is
\* written before append_to_google_sheets is called, and when the append
\* returns false the file still holds all cleaned records and the run has
\* ended in the ordinary way, the browser closed.
C18_JsonWrittenBeforeAppend ==
    /\ (pc = "append" \/ Entered("APPEND")) =>
          /\ effects.json
          /\ disk.json = Some(cleaned_data)
          /\ IsPrefix(<<Stage("CLEAN", 0), Stage("JSON", 0)>>,
                      SubSeq(effects.stages, Len(effects.stages)
                                 - (IF Entered("APPEND") THEN 2 ELSE 1),
                             Len(effects.stages)))
    /\ effects.appended = "failed" =>
          /\ disk.json = Some(cleaned_data)
          /\ Len(cleaned_data) = Len(extracted_data) /\ cleaned_data # <<>>
          /\ pc = "ended" /\ effects.browser = "closed"

C18_Witness ==
    /\ effects.appended = "failed" /\ effects.fault = "append"
    /\ pc = "ended" /\ Len(cleaned_data) = 2
    /\ disk.json = Some(cleaned_data)

\* C19: a page load that fails during a run is fatal once its attempts are
\* used up: after the navigation to a record's order page has failed, the
\* run does not go on with that record and returns no record made from it.
C19_FailedNavigationIsFatal ==
    /\ pc = "membership" => page.nav # "raises"
    /\ (pc = "extracted" /\ extracted_data # <<>>) => page.nav # "raises"

(***************************************************************************)
(* navigate_to_calendar_with_retry (app.py:141-219) on its own.            *)
(*                                                                         *)
(* page is what the last navigation to CALENDAR_URL ended on: goto is "ok" *)
(* or "raises"; url_login and url_calendar tell whether the URL contains   *)
(* 'login' and 'calendar'; form_visible and visible_raises are what        *)
(* is_on_login_page sees; wait is the wait for the 'New Appointment'       *)
(* button ("found", "timeout", or "error" for any other exception).        *)
(* effects counts the navigations and the perform_login calls and holds    *)
(* the value returned.                                                     *)
(***************************************************************************)
CalendarPages ==
    [goto : {"ok", "raises"}, url_login : BOOLEAN, url_calendar : BOOLEAN,
     form_visible : BOOLEAN, visible_raises : BOOLEAN,
     wait : {"found", "timeout", "error"}]
NoCalendarPage ==
    [goto |-> "none", url_login |-> FALSE, url_calendar |-> FALSE,
     form_visible |-> FALSE, visible_raises |-> FALSE, wait |-> "found"]

navigate_attempt_url_only(nav, attempt, max_attempts) ==
    IF nav.url_calendar THEN "true"
    ELSE IF attempt < max_attempts THEN "retry" ELSE "false"

navigate_attempt_login_on_every_redirect(nav, attempt, max_attempts) ==
    IF nav.goto = "raises"
    THEN IF attempt < max_attempts THEN "retry" ELSE "false"
    ELSE IF is_on_login_page(nav) THEN "login"
    ELSE IF nav.url_calendar
    THEN IF nav.wait = "error"
         THEN IF attempt < max_attempts THEN "retry" ELSE "false"
         ELSE "true"
    ELSE IF attempt < max_attempts THEN "retry" ELSE "false"

\* one pass of the loop body (153-217): "true" or "false" when it returns,
\* "login" when it calls perform_login and goes round again, "retry" when it
\* goes round again without
navigate_attempt(nav, attempt, max_attempts) ==
    IF nav.goto = "raises"
    THEN IF attempt < max_attempts THEN "retry" ELSE "false"
    ELSE IF is_on_login_page(nav)
    THEN IF attempt < max_attempts THEN "login" ELSE "false"
    ELSE IF nav.url_calendar
    THEN IF nav.wait = "error"
         THEN IF attempt < max_attempts THEN "retry" ELSE "false"
         ELSE "true"
    ELSE IF attempt < max_attempts THEN "retry" ELSE "false"

InitNavigate ==
    /\ pc = "navigate"
    /\ idx = 1
    /\ page = NoCalendarPage
    /\ effects \in [max_attempts : 0..MaxAttempts, navigations : {0}, logins : {0},
                    login_ok : {FALSE}, result : {"none"}]
    /\ env = Idle /\ events_data = Idle /\ new_client_events = <<>>
    /\ extracted_data = <<>> /\ start_number = 0 /\ current_year = 0
    /\ cleaned_data = <<>> /\ spreadsheet = Idle /\ target_month = Idle
    /\ history = Idle /\ disk = Idle

\* one attempt of the for loop (152-217)
NavigateAttempt ==
    /\ pc = "navigate"
    /\ idx <= effects.max_attempts
    /\ \E nav \in CalendarPages, login \in LoginOutcomes :
          LET outcome == navigate_attempt(nav, idx, effects.max_attempts)
          IN  /\ page' = nav
              /\ effects' = [effects EXCEPT
                    !.navigations = @ + 1,
                    !.logins = IF outcome = "login" THEN @ + 1 ELSE @,
                    !.login_ok = IF outcome = "login" THEN login.ok ELSE @,
                    !.result = IF outcome \in {"true", "false"} THEN outcome ELSE @]
              /\ pc' = IF outcome \in {"true", "false"} THEN "returned" ELSE "navigate"
              /\ idx' = IF outcome \in {"true", "false"} THEN idx ELSE idx + 1
    /\ UNCHANGED <<env, events_data, new_client_events, extracted_data, start_number,
                   current_year, cleaned_data, spreadsheet, target_month, history, disk>>

\* line 219: the loop ran out
NavigateExhausted ==
    /\ pc = "navigate"
    /\ idx > effects.max_attempts
    /\ effects' = [effects EXCEPT !.result = "false"]
    /\ pc' = "returned"
    /\ UNCHANGED <<env, events_data, new_client_events, page, idx, extracted_data,
                   start_number, current_year, cleaned_data, spreadsheet,
                   target_month, history, disk>>

NextNavigate ==
    \/ NavigateAttempt
    \/ NavigateExhausted
SpecNavigate == InitNavigate /\ [][NextNavigate]_vars

SessionFiles == {"absent", "stored"}

NotCalled == [returned |-> "none", calls |-> <<>>, before |-> "none", on_login_page |-> "none"]

InitLogin ==
    /\ pc = "login"
    /\ page \in LoginSites
    /\ disk \in [session : SessionFiles]
    /\ effects = NotCalled
    /\ env = Idle /\ events_data = Idle /\ new_client_events = <<>>
    /\ idx = 0 /\ extracted_data = <<>> /\ start_number = 0 /\ current_year = 0
    /\ cleaned_data = <<>> /\ spreadsheet = Idle /\ target_month = Idle
    /\ history = Idle

\* lines 88-138; line 129 is the only write of the session file
LoginCall ==
    /\ pc = "login"
    /\ LET result == perform_login(page)
           calls == login_calls(page)
           reached_save == calls[Len(calls)] = "storage_state"
       IN  /\ effects' = [returned |-> IF result.ok THEN "true" ELSE "false",
                          calls |-> calls, before |-> disk.session,
                          on_login_page |->
                              IF \A k \in 1..Len(calls) : calls[k] # "is_on_login_page"
                              THEN "none"
                              ELSE IF is_on_login_page(page) THEN "true" ELSE "false"]
           /\ \E torn \in BOOLEAN :
                 disk' = IF result.session_saved THEN [session |-> "written"]
                         ELSE IF reached_save /\ page.save = "raises" /\ torn
                         THEN [session |-> "partial"]
                         ELSE disk
    /\ pc' = "returned"
    /\ UNCHANGED <<env, events_data, new_client_events, page, idx, extracted_data,
                   start_number, current_year, cleaned_data, spreadsheet,
                   target_month, history>>

NextLogin == LoginCall
SpecLogin == InitLogin /\ [][NextLogin]_vars

Count(calls, name) == Cardinality({k \in 1..Len(calls) : calls[k] = name})
Called(name) == Count(effects.calls, name) >= 1

\* the form was submitted and the wait for horizontal-menu timed out
TimedOutAfterSubmit ==
    /\ pc = "returned"
    /\ Called("click")
    /\ page.menu_wait = "timeout"

\* C21 as stated: after the form is submitted, a timeout of the wait for the
\* post-login marker does not fail the call: verify_logged_in still runs and
\* the call returns exactly what it found; the form is submitted at most once
C21_TimeoutReturnsVerification ==
    /\ pc = "returned" => Count(effects.calls, "click") <= 1
    /\ TimedOutAfterSubmit =>
          /\ Called("verify_logged_in")
          /\ effects.returned = (IF page.menu_check = "visible" THEN "true" ELSE "false")

\* C21: after the form is submitted, a timeout of the wait for the post-login
\* marker does not fail the call: verify_logged_in still runs, and the call
\* returns true exactly when the verification succeeded and the session state
\* was then saved without an error; the form is submitted at most once
C21_TimeoutReturnsVerificationAndSave ==
    /\ pc = "returned" => Count(effects.calls, "click") <= 1
    /\ TimedOutAfterSubmit =>
          /\ Called("verify_logged_in")
          /\ effects.returned =
                (IF page.menu_check = "visible" /\ page.save = "ok"
                 THEN "true" ELSE "false")

C21_Witness ==
    /\ TimedOutAfterSubmit
    /\ page.menu_check = "visible" /\ page.save = "ok"
    /\ effects.returned = "true"

\* C22 as stated: whenever perform_login returns true the session file has
\* been written during the call, and whenever it returns false the call left
\* the session file unchanged
C22_SessionWrittenIffTrue ==
    pc = "returned" =>
        /\ effects.returned = "true" => disk.session = "written"
        /\ effects.returned = "false" => disk.session = effects.before

\* C22: whenever perform_login returns true after submitting the form, the
\* session file has been written during the call; when it returns true
\* without submitting (the page was not taken for the login page and the
\* logged-in marker was visible) the file is left as it was; whenever it
\* returns false the file is left as it was, unless storage_state itself
\* raised, which can leave an incomplete file
C22_SessionWrittenAfterSubmit ==
    pc = "returned" =>
        /\ (effects.returned = "true" /\ Called("click")) => disk.session = "written"
        /\ (effects.returned = "true" /\ ~Called("click")) =>
              disk.session = effects.before
        /\ (effects.returned = "false" /\ ~Called("storage_state")) =>
              disk.session = effects.before
        /\ (effects.returned = "false" /\ Called("storage_state")) =>
              disk.session \in {effects.before, "partial"}

C22_Witness ==
    /\ pc = "returned" /\ effects.returned = "true" /\ Called("click")
    /\ effects.before = "stored" /\ disk.session = "written"

\* C23: is_on_login_page answers true whenever the URL contains 'login' or
\* the e-mail input of the login form is visible, answers false only when
\* neither holds, and never raises
C23_LoginPageEitherSignal ==
    (pc = "returned" /\ Called("is_on_login_page")) =>
        /\ effects.on_login_page \in {"true", "false"}
        /\ effects.on_login_page = "true" <=> (page.url_login \/ page.form_visible)

(***************************************************************************)
(* extract_new_client_fields over dict events (app.py:1205-1329).          *)
(***************************************************************************)
EnrichedKeys ==
    {"phone_number", "membership_status", "membership_start_date", "membership_price",
     "scheduled_appointments", "gallery_first_date", "hasPhotos"}

AllEventsDicts == \A k \in 1..Len(new_client_events) : new_client_events[k].isdict

\* C24: with TEST_ENV false and every input event a dict,
\* extract_new_client_fields returns exactly one record per input event, in
\* input order, whatever the scraping of that record met, and every record
\* carries phone_number, the three membership fields, scheduled_appointments,
\* gallery_first_date and hasPhotos
C24_OneEnrichedRecordPerEvent ==
    (pc = "extracted" /\ AllEventsDicts) =>
        /\ Len(extracted_data) = Len(new_client_events)
        /\ \A k \in 1..Len(extracted_data) :
              /\ extracted_data[k].appointment_id = new_client_events[k].id
              /\ EnrichedKeys \subseteq DOMAIN extracted_data[k]

C24_Witness ==
    /\ pc = "extracted" /\ AllEventsDicts
    /\ Len(new_client_events) = 2 /\ Len(extracted_data) = 2
    /\ page.row = "notfound"
    /\ extracted_data[1].phone_number = "N/A"
    /\ extracted_data[2].phone_number = "N/A"
    /\ extracted_data[2].membership_status = "N/A"

(***************************************************************************)
(* One getMembershipInfo call (app.py:976-1175).                           *)
(*                                                                         *)
(* page is the client page the call meets: nav, tab, scheduled and gallery *)
(* say whether the navigation, the Memberships tab, the Scheduled          *)
(* Appointments section and the Gallery tab are there, missing, or raise;  *)
(* extracted_data holds the returned dict once the call has returned.      *)
(***************************************************************************)
ClientPages ==
    [nav : {"ok", "raises"},
     scheduled : {"rows", "absent", "raises"},
     rows : {<<>>, <<Appointment(TxtTueNov18)>>},
     tab : {"present", "absent", "raises"},
     overview : {"present", "absent"},
     gallery : {"text", "notab", "noheading", "raises"},
     gallery_text : {GalleryOct11, GalleryShort, EmptyText}]

InitMembership ==
    /\ pc = "membership"
    /\ page \in ClientPages
    /\ extracted_data = <<>>
    /\ env = Idle /\ events_data = Idle /\ new_client_events = <<>>
    /\ idx = 0 /\ start_number = 0 /\ current_year = 0
    /\ cleaned_data = <<>> /\ spreadsheet = Idle /\ target_month = Idle
    /\ effects = Idle /\ history = Idle /\ disk = Idle

MembershipCall ==
    /\ pc = "membership"
    /\ extracted_data' = <<getMembershipInfo(page)>>
    /\ pc' = "returned"
    /\ UNCHANGED <<env, events_data, new_client_events, page, idx, start_number,
                   current_year, cleaned_data, spreadsheet, target_month, effects,
                   history, disk>>

NextMembership == MembershipCall
SpecMembership == InitMembership /\ [][NextMembership]_vars

\* the client page opened, and the Memberships tab or its Overview section
\* is not there
MembershipAbsent ==
    /\ page.nav = "ok"
    /\ \/ page.tab = "absent"
       \/ page.tab = "present" /\ page.overview = "absent"

ModalOpened ==
    /\ pc = "detailed"
    /\ page.nav = "ok" /\ page.row = "found" /\ page.button = "present"

\* position of the token in the label, whatever its case; 0 when not there
TokenAt(label) == FindFrom(Lower(label), TokBooked, 1)

\* the labels the modal shows, stripped
ActorLabels == [k \in 1..Len(page.actor.spans) |-> Strip(page.actor.spans[k])]

FirstBookedLabel ==
    LET hits == {k \in 1..Len(ActorLabels) : TokenAt(ActorLabels[k]) > 0}
    IN  IF hits = {} THEN 0 ELSE CHOOSE k \in hits : \A j \in hits : k <= j

\* C26: whenever the appointment modal is opened, the returned details hold
\* both booked_by and booked_date: for the first actor label that contains
\* the token 'booked' in any case, booked_by is the text before the token and
\* booked_date the text after it without a leading middle dot; when no label
\* contains the token both are 'N/A'
C26_BookedByAndDate ==
    ModalOpened =>
        LET details == extracted_data[1]
        IN  /\ ~details.isNone
            /\ {"booked_by", "booked_date"} \subseteq DOMAIN details.d
            /\ (~page.actor.raises /\ FirstBookedLabel = 0) =>
                  (details.d.booked_by = NA /\ details.d.booked_date = NA)
            /\ (~page.actor.raises /\ FirstBookedLabel > 0) =>
                  LET label == ActorLabels[FirstBookedLabel]
                      at == TokenAt(label)
                      after == Strip(SubSeq(label, at + Len(TokBooked), Len(label)))
                  IN  /\ details.d.booked_by = Strip(SubSeq(label, 1, at - 1))
                      /\ details.d.booked_date =
                            (IF Len(after) > 0 /\ after[1] = MiddleDot
                             THEN Strip(Tail(after)) ELSE after)

\* the same statement for labels that spell the token in lower case, which
\* the code does satisfy
C26_HoldsForLowerCaseToken ==
    (ModalOpened /\ ~page.actor.raises /\ FirstBookedLabel > 0
        /\ FindFrom(ActorLabels[FirstBookedLabel], TokBooked, 1) > 0) =>
        LET details == extracted_data[1]
            label == ActorLabels[FirstBookedLabel]
            at == TokenAt(label)
            after == Strip(SubSeq(label, at + Len(TokBooked), Len(label)))
        IN  /\ {"booked_by", "booked_date"} \subseteq DOMAIN details.d
            /\ details.d.booked_by = Strip(SubSeq(label, 1, at - 1))
            /\ details.d.booked_date =
                  (IF Len(after) > 0 /\ after[1] = MiddleDot
                   THEN Strip(Tail(after)) ELSE after)

(***************************************************************************)
(* The header row written by append_to_google_sheets (app.py:1589-1619)    *)
(* read back by fetch_sheet_data (fetch_from_sheets.py:35-154).            *)
(*                                                                         *)
(* cleaned_data is what clean_data made of one or more extracted records,  *)
(* spreadsheet the sheets before the append; effects holds whether the     *)
(* append succeeded and history what fetch_sheet_data then made of the     *)
(* target sheet.                                                           *)
(***************************************************************************)
key_of_header_lowered_only(header) == Lower(header)

\* fetch_from_sheets.py line 117: header.lower().replace(' ', '_')
key_of_header(header) == ReplaceChar(Lower(header), " ", "_")

\* fetch_from_sheets.py line 109: any(row)
any_cell(row) == \E i \in 1..Len(row) : row[i] # <<>>

\* fetch_from_sheets.py line 120: the row cut or padded to the header columns
values_under(headers, row) ==
    [i \in 1..Len(headers) |-> IF i <= Len(row) THEN row[i] ELSE <<>>]

\* fetch_sheet_data (fetch_from_sheets.py:84-139): None when it returns False
\* (no such worksheet, or no values in it); otherwise the keys made of the
\* header row, in column order, and under them the values of every row
\* below it that has a value
fetch_sheet_data(sheets, sheet_name) ==
    IF sheet_name \notin DOMAIN sheets THEN None
    ELSE LET all_values == sheets[sheet_name]
         IN  IF all_values = <<>> THEN None
             ELSE LET headers == all_values[1]
                      rows == SelectSeq(Tail(all_values), any_cell)
                  IN  Some([keys |-> [i \in 1..Len(headers) |-> key_of_header(headers[i])],
                            data |-> [j \in 1..Len(rows) |->
                                         values_under(headers, rows[j])]])

CleanedInputs ==
    {clean_data(x, n, 2025) :
        x \in {e \in ExtractedInputs : Len(e) >= 1}, n \in StartNumbers}

InitHeaders ==
    /\ pc = "append"
    /\ cleaned_data \in CleanedInputs
    /\ target_month \in {"November", "January"}
    /\ spreadsheet \in InitialSheets(target_month)
    /\ env \in {e \in Environments : e.email /\ e.password}
    /\ effects = [success |-> FALSE]
    /\ history = None
    /\ events_data = Idle /\ new_client_events = <<>> /\ page = Idle
    /\ idx = 0 /\ extracted_data = <<>> /\ start_number = 0 /\ current_year = 2025
    /\ disk = Idle

\* app.py lines 1513-1634
HeadersAppend ==
    /\ pc = "append"
    /\ \E fail \in {"none", "open", "append"} :
          LET result == append_to_google_sheets(cleaned_data, spreadsheet,
                                                target_month, env, fail)
          IN  /\ spreadsheet' = result[2]
              /\ effects' = [success |-> result[1]]
    /\ pc' = "appended"
    /\ UNCHANGED <<env, disk, events_data, new_client_events, page, idx, extracted_data,
                   start_number, current_year, cleaned_data, target_month, history>>

\* fetch_from_sheets.py lines 35-154 on the sheet of the target month
HeadersFetch ==
    /\ pc = "appended"
    /\ history' = fetch_sheet_data(spreadsheet, target_month)
    /\ pc' = "fetched"
    /\ UNCHANGED <<env, disk, events_data, new_client_events, page, idx, extracted_data,
                   start_number, current_year, cleaned_data, target_month, effects,
                   spreadsheet>>

NextHeaders ==
    \/ HeadersAppend
    \/ HeadersFetch
SpecHeaders == InitHeaders /\ [][NextHeaders]_vars

\* C27: after a successful append, fetch_sheet_data maps the header of every
\* column back to the name of the cleaned-record field it was derived from,
\* the columns are in the order of the fields of the cleaned record, and the
\* appended rows hold each record's values under those keys
C27_HeaderRoundTrip ==
    (pc = "fetched" /\ effects.success) =>
        /\ ~history.isNone
        /\ Len(history.d.keys) = Len(CleanedKeys)
        /\ \A i \in 1..Len(CleanedKeys) : history.d.keys[i] = KeyChars(CleanedKeys[i])
        /\ Len(history.d.data) >= Len(cleaned_data)
        /\ \A j \in 1..Len(cleaned_data) :
              \A i \in 1..Len(CleanedKeys) :
                 history.d.data[Len(history.d.data) - Len(cleaned_data) + j][i]
                     = CellOf(CleanedKeys[i], cleaned_data[j][CleanedKeys[i]])

C27_Witness ==
    /\ pc = "fetched" /\ effects.success
    /\ Len(cleaned_data) = 2
    /\ history.d.keys[2] = KeyChars("new_client_daily_count")
    /\ history.d.keys[19] = KeyChars("referral_source_2")
    /\ history.d.keys[31] = KeyChars("interest_10")
    /\ Len(history.d.data) = 4

(***************************************************************************)
(* The login retries of navigate_to_calendar_with_retry (app.py:153-178).  *)
(***************************************************************************)
\* the step is attempt number idx, and its navigation loaded a page that
\* is_on_login_page takes for the login page
RedirectedToLogin ==
    /\ pc = "navigate" /\ idx <= effects.max_attempts
    /\ page'.goto = "ok"
    /\ ~page'.visible_raises /\ (page'.url_login \/ page'.form_visible)

\* what C28 asks of every step of the loop
NoLoginOnFinalAttempt ==
    /\ (RedirectedToLogin /\ idx = effects.max_attempts) =>
          /\ pc' = "returned" /\ effects'.result = "false"
          /\ effects'.logins = effects.logins
    /\ effects'.logins # effects.logins =>
          /\ effects'.logins = effects.logins + 1
          /\ idx \in 1..(effects.max_attempts - 1)
    /\ effects.max_attempts = 1 => effects'.logins = 0

EmptyList == ListRaw(<<>>)
EmptyDict == [ListRaw(<<>>) EXCEPT !.kind = "dict"]

\* the fetch got status 200 and a body that parsed to [] or {}
FetchedEmpty ==
    /\ effects.fetched
    /\ ~effects.response.raises /\ effects.response.status = 200
    /\ events_data \in {EmptyList, EmptyDict}

\* C29: a calendar fetch that succeeds with status 200 but returns an empty
\* list or an empty dict is handled by main like a failed fetch: the run ends
\* after the fetch stage with the error logged, none of filter, enrichment,
\* cleaning, JSON write or spreadsheet append runs, and the spreadsheet is
\* left as it was
C29_EmptyFetchEndsRun ==
    FetchedEmpty =>
        /\ pc = "ended"
        /\ effects.error
        /\ effects.browser = "closed"
        /\ effects.stages = <<Stage("LOGIN", 0), Stage("FETCH", 0)>>
        /\ new_client_events = <<>> /\ extracted_data = <<>> /\ cleaned_data = <<>>
        /\ ~effects.scraped /\ ~effects.json
        /\ ~effects.sheet_read /\ ~effects.sheet_written /\ effects.appended = "no"
        /\ spreadsheet = effects.sheets_at_start

C29_Witness ==
    /\ FetchedEmpty /\ events_data = EmptyList
    /\ pc = "ended" /\ effects.error
    /\ effects.stages = <<Stage("LOGIN", 0), Stage("FETCH", 0)>>

(***************************************************************************)
(* Where filter_new_clients_from_raw takes its events from                 *)
(* (app.py:322-335, 395-397).                                              *)
(***************************************************************************)
\* what the filter makes of an event list once it has been picked
FilteredFrom(events) ==
    IF events = <<>> \/ (\E i \in 1..Len(events) : ~events[i].isdict) THEN <<>>
    ELSE filter_loop(events, 1, <<>>)

\* C30: for a dict input the filter reads the event list from key 'events'
\* whenever the key is present, even with an empty list, and from key 'data'
\* only when 'events' is absent; for an input that is neither list nor dict,
\* for an empty event list, and when any item is not a dict, it returns the
\* empty list
C30_EventsKeyPrecedence ==
    pc = "filtered" =>
        /\ (events_data.kind = "dict" /\ events_data.hasEvents) =>
              new_client_events = FilteredFrom(events_data.events)
        /\ (events_data.kind = "dict" /\ ~events_data.hasEvents /\ events_data.hasData) =>
              new_client_events = FilteredFrom(events_data.data)
        /\ (events_data.kind = "dict" /\ ~events_data.hasEvents /\ ~events_data.hasData) =>
              new_client_events = <<>>
        /\ events_data.kind = "list" => new_client_events = FilteredFrom(events_data.items)
        /\ events_data.kind \notin {"list", "dict"} => new_client_events = <<>>

C30_Witness ==
    /\ pc = "filtered"
    /\ events_data.kind = "dict" /\ events_data.hasEvents /\ events_data.events = <<>>
    /\ events_data.hasData /\ Len(events_data.data) = 1
    /\ events_data.data[1].is_new_client = "True"
    /\ new_client_events = <<>>

====
